---- MODULE Spec2Model ----
(***************************************************************************)
(* monkeycmd: the terminal text editor (TerminalEditor), its key           *)
(* dispatcher, the command table, the challenge generators and the         *)
(* validator, as state machines over small texts.                          *)
(*                                                                         *)
(* A text is a sequence of one-character strings; offsets are 0-based as   *)
(* in the JavaScript source, so text[i] of the source is CharAt(t, i).     *)
(***************************************************************************)
EXTENDS Integers, Sequences, FiniteSets, TLC

VARIABLES
    text,            \* TerminalEditor.text
    cursorPosition,  \* TerminalEditor.cursorPosition
    selection,       \* TerminalEditor.selection
    os,              \* TerminalEditor.os (and the generator's os argument)
    pre,             \* history: the editor fields before the last call
    last,            \* history: the last call (api, key event, operation run, handled)
    challenge,       \* app.currentChallenge
    commandType,     \* the command id the challenge was generated for
    userResult,      \* the last state handed to validateChallenge
    validation,      \* the last result of validateChallenge
    phase,           \* position of the driving script of a specification
    app,             \* main.js: the flags and pending timers of the app object
    game             \* game.js: the fields of the Game instance

vars == <<text, cursorPosition, selection, os, pre, last, challenge, commandType,
          userResult, validation, phase, app, game>>

(***************************************************************************)
(* Bounds of the model.                                                    *)
(***************************************************************************)
MaxLen == 2            \* longest text an editor specification starts from
MaxChallengeLen == 4   \* longest custom text handed to generateChallenge
MaxEditorLen == 1      \* longest text of the free-running editor specification
MaxValidateLen == 1    \* longest text and largest offset handed to validateChallenge
MaxGenerateLen == 3    \* longest text handed to a generator called on its own
MaxBoundaryLen == 4    \* longest text handed to the boundary finders
MaxCallsLen == 2       \* longest text of the editor specification without setState
MaxGameLen == 3        \* longest text of a challenge of the game specification
MaxDuration == 2       \* longest game of the game specification, in seconds
MaxAttempts == 2       \* most attempts and pending timers of a game

(***************************************************************************)
(* JavaScript values and string primitives.                                *)
(***************************************************************************)
NL == "\n"
Undefined == "undefined"

Min(a, b) == IF a < b THEN a ELSE b
Max(a, b) == IF a > b THEN a ELSE b

\* text[i]: the character at 0-based offset i, undefined outside the string.
CharAt(t, i) == IF i >= 0 /\ i < Len(t) THEN t[i + 1] ELSE Undefined

\* /\s/.test(c) and /\S/.test(c) for a character or undefined.  test()
\* converts undefined to the string "undefined", which holds no whitespace
\* and does hold a non-whitespace character.
WhitespaceChars == {" ", NL, "\t"}
IsWhitespace(c) == c \in WhitespaceChars
IsNonWhitespace(c) == c \notin WhitespaceChars

\* String.prototype.slice(a, b): negative offsets count from the end, both
\* are clamped to the string, an empty range gives "".
SliceIndex(t, i) == IF i < 0 THEN Max(Len(t) + i, 0) ELSE Min(i, Len(t))
Slice(t, a, b) ==
    LET from == SliceIndex(t, a)
        to   == SliceIndex(t, b)
    IN  IF from >= to THEN <<>> ELSE SubSeq(t, from + 1, to)
SliceFrom(t, a) == Slice(t, a, Len(t))

(***************************************************************************)
(* Editor state.  The selection is null or {start, end, anchor}.           *)
(***************************************************************************)
NullSelection == [active |-> FALSE, start |-> 0, end |-> 0, anchor |-> 0]
Sel(s, e, a) == [active |-> TRUE, start |-> s, end |-> e, anchor |-> a]

EditorState(t, c, sel) == [text |-> t, cursorPosition |-> c, selection |-> sel]
Ed == EditorState(text, cursorPosition, selection)

(***************************************************************************)
(* Boundary finder of the editor.                                          *)
(***************************************************************************)
RECURSIVE SkipWhitespaceLeft(_, _)
SkipWhitespaceLeft(t, pos) ==
    IF pos > 0 /\ IsWhitespace(CharAt(t, pos))
    THEN SkipWhitespaceLeft(t, pos - 1) ELSE pos

RECURSIVE SkipWordLeft(_, _)
SkipWordLeft(t, pos) ==
    IF pos > 0 /\ IsNonWhitespace(CharAt(t, pos - 1))
    THEN SkipWordLeft(t, pos - 1) ELSE pos

RECURSIVE SkipWordRight(_, _)
SkipWordRight(t, pos) ==
    IF pos < Len(t) /\ IsNonWhitespace(CharAt(t, pos))
    THEN SkipWordRight(t, pos + 1) ELSE pos

RECURSIVE SkipWhitespaceRight(_, _)
SkipWhitespaceRight(t, pos) ==
    IF pos < Len(t) /\ IsWhitespace(CharAt(t, pos))
    THEN SkipWhitespaceRight(t, pos + 1) ELSE pos

\* A variant whose right branch skips whitespace only, not the current word.
findWordBoundaryNoWordSkip(t, position, direction) ==
    IF direction = "left"
    THEN IF position = 0 THEN 0
         ELSE SkipWordLeft(t, SkipWhitespaceLeft(t, position - 1))
    ELSE IF position >= Len(t) THEN Len(t)
         ELSE SkipWhitespaceRight(t, position)

\* A variant that starts the search to the left at the position itself.
findWordBoundaryLeftFromPosition(t, position, direction) ==
    IF direction = "left"
    THEN IF position = 0 THEN 0
         ELSE SkipWordLeft(t, SkipWhitespaceLeft(t, position))
    ELSE IF position >= Len(t) THEN Len(t)
         ELSE SkipWhitespaceRight(t, SkipWordRight(t, position))

findWordBoundary(t, position, direction) ==
    IF direction = "left"
    THEN IF position = 0 THEN 0
         ELSE SkipWordLeft(t, SkipWhitespaceLeft(t, position - 1))
    ELSE IF position >= Len(t) THEN Len(t)
         ELSE SkipWhitespaceRight(t, SkipWordRight(t, position))

\* A variant whose loop also runs at position 0.
RECURSIVE findLineStartBelowZero(_, _)
findLineStartBelowZero(t, pos) ==
    IF pos >= 0 /\ CharAt(t, pos - 1) # NL THEN findLineStartBelowZero(t, pos - 1)
    ELSE pos

RECURSIVE findLineStart(_, _)
findLineStart(t, pos) ==
    IF pos > 0 /\ CharAt(t, pos - 1) # NL THEN findLineStart(t, pos - 1) ELSE pos

\* A variant that looks for the newline after the position only.
RECURSIVE findLineEndAfter(_, _)
findLineEndAfter(t, pos) ==
    IF pos < Len(t) /\ CharAt(t, pos + 1) # NL THEN findLineEndAfter(t, pos + 1) ELSE pos

RECURSIVE findLineEnd(_, _)
findLineEnd(t, pos) ==
    IF pos < Len(t) /\ CharAt(t, pos) # NL THEN findLineEnd(t, pos + 1) ELSE pos

(***************************************************************************)
(* Editor operations, each a function from editor state to editor state.   *)
(***************************************************************************)
\* A variant that keeps an empty selection instead of clearing it.
updateSelectionNoCollapse(s, anchor, current) ==
    [s EXCEPT !.selection = Sel(Min(anchor, current), Max(anchor, current), anchor)]

updateSelection(s, anchor, current) ==
    IF anchor = current
    THEN [s EXCEPT !.selection = NullSelection]
    ELSE [s EXCEPT !.selection =
              Sel(Min(anchor, current), Max(anchor, current), anchor)]

\* A variant that anchors every extension at the cursor.
anchorPosAtCursor(s) == s.cursorPosition

\* this.selection ? this.selection.anchor : this.cursorPosition
anchorPos(s) == IF s.selection.active THEN s.selection.anchor ELSE s.cursorPosition

\* A variant that leaves the cursor where it was.
deleteSelectionKeepCursor(s) ==
    IF ~s.selection.active THEN s
    ELSE LET start == Min(s.selection.start, s.selection.end)
             end   == Max(s.selection.start, s.selection.end)
         IN  EditorState(Slice(s.text, 0, start) \o SliceFrom(s.text, end),
                         s.cursorPosition, NullSelection)

deleteSelection(s) ==
    IF ~s.selection.active THEN s
    ELSE LET start == Min(s.selection.start, s.selection.end)
             end   == Max(s.selection.start, s.selection.end)
         IN  EditorState(Slice(s.text, 0, start) \o SliceFrom(s.text, end),
                         start, NullSelection)

setText(s, t) == EditorState(t, Min(s.cursorPosition, Len(t)), NullSelection)

\* A variant that does not clamp at 0.
moveCursorNoLowerClamp(s, position) ==
    EditorState(s.text, Min(position, Len(s.text)), NullSelection)

moveCursor(s, position) ==
    EditorState(s.text, Max(0, Min(position, Len(s.text))), NullSelection)

\* A variant that moves the cursor and keeps the selection.
moveByWordKeepSelection(s, direction) ==
    EditorState(s.text, findWordBoundary(s.text, s.cursorPosition, direction),
                s.selection)

moveByWord(s, direction) ==
    EditorState(s.text, findWordBoundary(s.text, s.cursorPosition, direction),
                NullSelection)

\* moveByWord(direction) called n times in a row.
RECURSIVE RepeatMoveByWord(_, _, _)
RepeatMoveByWord(s, direction, n) ==
    IF n = 0 THEN s
    ELSE RepeatMoveByWord(moveByWord(s, direction), direction, n - 1)

moveToLineStart(s) ==
    EditorState(s.text, findLineStart(s.text, s.cursorPosition), NullSelection)

moveToLineEnd(s) ==
    EditorState(s.text, findLineEnd(s.text, s.cursorPosition), NullSelection)

selectByWord(s, direction) ==
    LET anchor      == anchorPos(s)
        newPosition == findWordBoundary(s.text, s.cursorPosition, direction)
    IN  updateSelection([s EXCEPT !.cursorPosition = newPosition], anchor, newPosition)

selectToLineStart(s) ==
    LET anchor    == anchorPos(s)
        lineStart == findLineStart(s.text, s.cursorPosition)
    IN  updateSelection([s EXCEPT !.cursorPosition = lineStart], anchor, lineStart)

selectToLineEnd(s) ==
    LET anchor  == anchorPos(s)
        lineEnd == findLineEnd(s.text, s.cursorPosition)
    IN  updateSelection([s EXCEPT !.cursorPosition = lineEnd], anchor, lineEnd)

\* A variant that leaves the cursor where it was.
deleteWordKeepCursor(s) ==
    IF s.selection.active THEN deleteSelection(s)
    ELSE LET wordStart == findWordBoundary(s.text, s.cursorPosition, "left")
         IN  [s EXCEPT !.text = Slice(s.text, 0, wordStart)
                                    \o SliceFrom(s.text, s.cursorPosition)]

deleteWord(s) ==
    IF s.selection.active THEN deleteSelection(s)
    ELSE LET wordStart == findWordBoundary(s.text, s.cursorPosition, "left")
         IN  [s EXCEPT !.text = Slice(s.text, 0, wordStart)
                                    \o SliceFrom(s.text, s.cursorPosition),
                       !.cursorPosition = wordStart]

deleteToLineStart(s) ==
    IF s.selection.active THEN deleteSelection(s)
    ELSE LET lineStart == findLineStart(s.text, s.cursorPosition)
         IN  [s EXCEPT !.text = Slice(s.text, 0, lineStart)
                                    \o SliceFrom(s.text, s.cursorPosition),
                       !.cursorPosition = lineStart]

deleteToLineEnd(s) ==
    IF s.selection.active THEN deleteSelection(s)
    ELSE LET lineEnd == findLineEnd(s.text, s.cursorPosition)
         IN  [s EXCEPT !.text = Slice(s.text, 0, s.cursorPosition)
                                    \o SliceFrom(s.text, lineEnd)]

\* A variant that stops at the end of the word, before the whitespace.
deleteWordForwardOnlyWord(s) ==
    IF s.selection.active THEN deleteSelection(s)
    ELSE LET wordEnd == SkipWordRight(s.text, s.cursorPosition)
         IN  [s EXCEPT !.text = Slice(s.text, 0, s.cursorPosition)
                                    \o SliceFrom(s.text, wordEnd)]

deleteWordForward(s) ==
    IF s.selection.active THEN deleteSelection(s)
    ELSE LET wordEnd == findWordBoundary(s.text, s.cursorPosition, "right")
         IN  [s EXCEPT !.text = Slice(s.text, 0, s.cursorPosition)
                                    \o SliceFrom(s.text, wordEnd)]

\* A variant that leaves the cursor where it was.
selectAllKeepCursor(s) ==
    IF Len(s.text) = 0
    THEN [s EXCEPT !.selection = NullSelection]
    ELSE [s EXCEPT !.selection = Sel(0, Len(s.text), 0)]

selectAll(s) ==
    IF Len(s.text) = 0
    THEN [s EXCEPT !.selection = NullSelection]
    ELSE EditorState(s.text, Len(s.text), Sel(0, Len(s.text), 0))

moveCursorLeft(s) ==
    IF s.selection.active
    THEN EditorState(s.text, Min(s.selection.start, s.selection.end), NullSelection)
    ELSE IF s.cursorPosition > 0
         THEN [s EXCEPT !.cursorPosition = s.cursorPosition - 1]
         ELSE s

moveCursorRight(s) ==
    IF s.selection.active
    THEN EditorState(s.text, Max(s.selection.start, s.selection.end), NullSelection)
    ELSE IF s.cursorPosition < Len(s.text)
         THEN [s EXCEPT !.cursorPosition = s.cursorPosition + 1]
         ELSE s

extendSelection(s, direction) ==
    LET anchor == anchorPos(s)
        cur    == IF direction = "left" /\ s.cursorPosition > 0
                  THEN s.cursorPosition - 1
                  ELSE IF direction = "right" /\ s.cursorPosition < Len(s.text)
                       THEN s.cursorPosition + 1
                       ELSE s.cursorPosition
    IN  updateSelection([s EXCEPT !.cursorPosition = cur], anchor, cur)

\* A variant that inserts without removing the selection first.
insertCharacterKeepSelection(s, char) ==
    [s EXCEPT !.text = Slice(s.text, 0, s.cursorPosition) \o <<char>>
                           \o SliceFrom(s.text, s.cursorPosition),
              !.cursorPosition = s.cursorPosition + 1]

insertCharacter(s, char) ==
    LET d == IF s.selection.active THEN deleteSelection(s) ELSE s
    IN  [d EXCEPT !.text = Slice(d.text, 0, d.cursorPosition) \o <<char>>
                               \o SliceFrom(d.text, d.cursorPosition),
                  !.cursorPosition = d.cursorPosition + 1]

deleteCharacter(s, direction) ==
    IF s.selection.active THEN deleteSelection(s)
    ELSE IF direction = "backward" /\ s.cursorPosition > 0
         THEN [s EXCEPT !.text = Slice(s.text, 0, s.cursorPosition - 1)
                                     \o SliceFrom(s.text, s.cursorPosition),
                        !.cursorPosition = s.cursorPosition - 1]
         ELSE IF direction = "forward" /\ s.cursorPosition < Len(s.text)
              THEN [s EXCEPT !.text = Slice(s.text, 0, s.cursorPosition)
                                          \o SliceFrom(s.text, s.cursorPosition + 1)]
              ELSE s

\* setState(state): a field of the argument that is undefined is left alone.
\* The argument is [hasText, text, hasCursorPosition, cursorPosition,
\* selectionKind ("undefined", "null" or "object"), start, end, hasAnchor, anchor].
setState(s, st) ==
    LET t   == IF st.hasText THEN st.text ELSE s.text
        c   == IF st.hasCursorPosition
               THEN Max(0, Min(st.cursorPosition, Len(t)))
               ELSE s.cursorPosition
        sel == IF st.selectionKind = "undefined" THEN s.selection
               ELSE IF st.selectionKind = "object"
                    THEN Sel(st.start, st.end,
                             \* state.selection.anchor || state.selection.start
                             IF st.hasAnchor /\ st.anchor # 0 THEN st.anchor
                             ELSE st.start)
                    ELSE NullSelection
    IN  EditorState(t, c, sel)

\* getState(): the selection without its anchor.
getState(s) ==
    [text |-> s.text, cursorPosition |-> s.cursorPosition,
     selection |-> [active |-> s.selection.active,
                    start  |-> IF s.selection.active THEN s.selection.start ELSE 0,
                    end    |-> IF s.selection.active THEN s.selection.end ELSE 0]]

(***************************************************************************)
(* Key dispatcher.                                                         *)
(***************************************************************************)
KeyEvent(k, meta, alt, ctrl, shift) ==
    [key |-> k, metaKey |-> meta, altKey |-> alt, ctrlKey |-> ctrl, shiftKey |-> shift]
NoEvent == KeyEvent("", FALSE, FALSE, FALSE, FALSE)

OSes == {"mac", "windows", "linux"}

\* String.prototype.toLowerCase on a key name.
ToLowerCase(k) ==
    CASE k = "A" -> "a" [] k = "E" -> "e" [] k = "W" -> "w" [] k = "D" -> "d"
      [] k = "F" -> "f" [] k = "B" -> "b" [] k = "K" -> "k" [] k = "U" -> "u"
      [] k = "ArrowLeft" -> "arrowleft" [] k = "ArrowRight" -> "arrowright"
      [] k = "Backspace" -> "backspace" [] k = "Delete" -> "delete"
      [] k = "Home" -> "home" [] k = "End" -> "end" [] k = "Enter" -> "enter"
      [] k = "Escape" -> "escape" [] k = "Tab" -> "tab"
      [] OTHER -> k

\* The branches of _handleKeyDown, one per key: the operation run for the
\* event, "none" when the event is left unhandled.
ArrowLeftOperation(osv, e) ==
    LET isMac == osv = "mac"  isWindows == osv = "windows"  isLinux == osv = "linux"
    IN  IF isMac /\ e.metaKey /\ e.shiftKey THEN "selectToLineStart"
        ELSE IF isMac /\ e.metaKey THEN "moveToLineStart"
        ELSE IF isMac /\ e.altKey /\ e.shiftKey THEN "selectByWord_left"
        ELSE IF isMac /\ e.altKey THEN "moveByWord_left"
        ELSE IF (isWindows \/ isLinux) /\ e.ctrlKey /\ e.shiftKey THEN "selectByWord_left"
        ELSE IF (isWindows \/ isLinux) /\ e.ctrlKey THEN "moveByWord_left"
        ELSE IF e.shiftKey THEN "extendSelection_left"
        ELSE "moveCursorLeft"

ArrowRightOperation(osv, e) ==
    LET isMac == osv = "mac"  isWindows == osv = "windows"  isLinux == osv = "linux"
    IN  IF isMac /\ e.metaKey /\ e.shiftKey THEN "selectToLineEnd"
        ELSE IF isMac /\ e.metaKey THEN "moveToLineEnd"
        ELSE IF isMac /\ e.altKey /\ e.shiftKey THEN "selectByWord_right"
        ELSE IF isMac /\ e.altKey THEN "moveByWord_right"
        ELSE IF (isWindows \/ isLinux) /\ e.ctrlKey /\ e.shiftKey THEN "selectByWord_right"
        ELSE IF (isWindows \/ isLinux) /\ e.ctrlKey THEN "moveByWord_right"
        ELSE IF e.shiftKey THEN "extendSelection_right"
        ELSE "moveCursorRight"

BackspaceOperation(osv, e) ==
    LET isMac == osv = "mac"  isWindows == osv = "windows"  isLinux == osv = "linux"
    IN  IF isMac /\ e.metaKey THEN "deleteToLineStart"
        ELSE IF (isWindows \/ isLinux) /\ e.ctrlKey /\ e.shiftKey THEN "deleteToLineStart"
        ELSE IF isMac /\ e.altKey THEN "deleteWord"
        ELSE IF (isWindows \/ isLinux) /\ e.ctrlKey THEN "deleteWord"
        ELSE "deleteCharacter_backward"

DeleteOperation(osv, e) ==
    LET isMac == osv = "mac"  isWindows == osv = "windows"  isLinux == osv = "linux"
    IN  IF (isWindows \/ isLinux) /\ e.ctrlKey /\ e.shiftKey THEN "deleteToLineEnd"
        ELSE IF isMac /\ e.altKey THEN "deleteWordForward"
        ELSE IF (isWindows \/ isLinux) /\ e.ctrlKey THEN "deleteWordForward"
        ELSE "deleteCharacter_forward"

HomeOperation(e) == IF e.shiftKey THEN "selectToLineStart" ELSE "moveToLineStart"

EndOperation(e) == IF e.shiftKey THEN "selectToLineEnd" ELSE "moveToLineEnd"

\* The Control + letter branches that depend on the platform.
CtrlAOperation(osv) ==
    IF osv = "mac" \/ osv = "linux" THEN "moveToLineStart"
    ELSE IF osv = "windows" THEN "selectAll"
    ELSE "none"

\* A variant that runs Control + E on every platform.
CtrlEOperationAnyOS(osv) == "moveToLineEnd"

CtrlEOperation(osv) == IF osv = "mac" \/ osv = "linux" THEN "moveToLineEnd" ELSE "none"

CtrlDOperation(osv) ==
    IF osv = "mac" \/ osv = "linux" THEN "deleteCharacter_forward" ELSE "none"

CtrlFOperation(osv) == IF osv = "mac" \/ osv = "linux" THEN "moveCursorRight" ELSE "none"

CtrlBOperation(osv) == IF osv = "mac" \/ osv = "linux" THEN "moveCursorLeft" ELSE "none"

\* The if-chain of _handleKeyDown.
KeyOperation(osv, e) ==
    LET lower == ToLowerCase(e.key)
    IN
    IF e.key = "ArrowLeft" THEN ArrowLeftOperation(osv, e)
    ELSE IF e.key = "ArrowRight" THEN ArrowRightOperation(osv, e)
    ELSE IF e.key = "Backspace" THEN BackspaceOperation(osv, e)
    ELSE IF e.key = "Delete" THEN DeleteOperation(osv, e)
    ELSE IF e.key = "Home" THEN HomeOperation(e)
    ELSE IF e.key = "End" THEN EndOperation(e)
    ELSE IF Len(e.key) = 1 /\ ~e.metaKey /\ ~e.ctrlKey THEN "insertCharacter"
    ELSE IF e.key = "Enter" THEN "insertNewline"
    ELSE IF e.ctrlKey /\ lower = "a" THEN CtrlAOperation(osv)
    ELSE IF e.ctrlKey /\ lower = "e" THEN CtrlEOperation(osv)
    ELSE IF e.ctrlKey /\ lower = "w" THEN "deleteWord"
    ELSE IF e.ctrlKey /\ lower = "d" THEN CtrlDOperation(osv)
    ELSE IF e.ctrlKey /\ lower = "f" THEN CtrlFOperation(osv)
    ELSE IF e.ctrlKey /\ lower = "b" THEN CtrlBOperation(osv)
    ELSE IF e.ctrlKey /\ lower = "k" THEN "deleteToLineEnd"
    ELSE IF e.ctrlKey /\ lower = "u" THEN "deleteToLineStart"
    ELSE IF osv = "mac" /\ e.metaKey /\ lower = "a" THEN "selectAll"
    ELSE IF osv = "linux" /\ e.altKey /\ lower = "d" THEN "deleteWordForward"
    ELSE IF osv = "linux" /\ e.altKey /\ e.key = "Backspace" THEN "deleteWord"
    ELSE "none"

\* The editor method named by an operation, applied to an editor state;
\* char is the key of the event, used by a character insertion.
ApplyOperation(s, op, char) ==
    CASE op = "selectToLineStart"        -> selectToLineStart(s)
      [] op = "selectToLineEnd"          -> selectToLineEnd(s)
      [] op = "moveToLineStart"          -> moveToLineStart(s)
      [] op = "moveToLineEnd"            -> moveToLineEnd(s)
      [] op = "selectByWord_left"        -> selectByWord(s, "left")
      [] op = "selectByWord_right"       -> selectByWord(s, "right")
      [] op = "moveByWord_left"          -> moveByWord(s, "left")
      [] op = "moveByWord_right"         -> moveByWord(s, "right")
      [] op = "extendSelection_left"     -> extendSelection(s, "left")
      [] op = "extendSelection_right"    -> extendSelection(s, "right")
      [] op = "moveCursorLeft"           -> moveCursorLeft(s)
      [] op = "moveCursorRight"          -> moveCursorRight(s)
      [] op = "deleteToLineStart"        -> deleteToLineStart(s)
      [] op = "deleteToLineEnd"          -> deleteToLineEnd(s)
      [] op = "deleteWord"               -> deleteWord(s)
      [] op = "deleteWordForward"        -> deleteWordForward(s)
      [] op = "deleteCharacter_backward" -> deleteCharacter(s, "backward")
      [] op = "deleteCharacter_forward"  -> deleteCharacter(s, "forward")
      [] op = "insertCharacter"          -> insertCharacter(s, char)
      [] op = "insertNewline"            -> insertCharacter(s, NL)
      [] op = "selectAll"                -> selectAll(s)
      [] OTHER                           -> s

\* _handleKeyDown(e): the new editor state, and whether the event was
\* handled (preventDefault and stopPropagation are called exactly then).
handleKeyDown(s, osv, e) ==
    LET op == KeyOperation(osv, e)
    IN  [state |-> ApplyOperation(s, op, e.key), handled |-> op # "none", op |-> op]

(***************************************************************************)
(* challenges.js: the command table.  Each entry is the keyCode of the     *)
(* command on one platform; a modifier the keyCode does not name is false. *)
(***************************************************************************)
COMMANDS ==
    [DELETE_WORD |->
        [mac     |-> KeyEvent("Backspace", FALSE, TRUE, FALSE, FALSE),
         windows |-> KeyEvent("Backspace", FALSE, FALSE, TRUE, FALSE),
         linux   |-> KeyEvent("Backspace", FALSE, TRUE, FALSE, FALSE)],
     DELETE_WORD_FORWARD |->
        [mac     |-> KeyEvent("Delete", FALSE, TRUE, FALSE, FALSE),
         windows |-> KeyEvent("Delete", FALSE, FALSE, TRUE, FALSE),
         linux   |-> KeyEvent("d", FALSE, TRUE, FALSE, FALSE)],
     MOVE_WORD_LEFT |->
        [mac     |-> KeyEvent("ArrowLeft", FALSE, TRUE, FALSE, FALSE),
         windows |-> KeyEvent("ArrowLeft", FALSE, FALSE, TRUE, FALSE),
         linux   |-> KeyEvent("ArrowLeft", FALSE, FALSE, TRUE, FALSE)],
     MOVE_WORD_RIGHT |->
        [mac     |-> KeyEvent("ArrowRight", FALSE, TRUE, FALSE, FALSE),
         windows |-> KeyEvent("ArrowRight", FALSE, FALSE, TRUE, FALSE),
         linux   |-> KeyEvent("ArrowRight", FALSE, FALSE, TRUE, FALSE)],
     JUMP_LINE_START |->
        [mac     |-> KeyEvent("ArrowLeft", TRUE, FALSE, FALSE, FALSE),
         windows |-> KeyEvent("Home", FALSE, FALSE, FALSE, FALSE),
         linux   |-> KeyEvent("Home", FALSE, FALSE, FALSE, FALSE)],
     JUMP_LINE_END |->
        [mac     |-> KeyEvent("ArrowRight", TRUE, FALSE, FALSE, FALSE),
         windows |-> KeyEvent("End", FALSE, FALSE, FALSE, FALSE),
         linux   |-> KeyEvent("End", FALSE, FALSE, FALSE, FALSE)],
     DELETE_TO_LINE_START |->
        [mac     |-> KeyEvent("Backspace", TRUE, FALSE, FALSE, FALSE),
         windows |-> KeyEvent("Backspace", FALSE, FALSE, TRUE, TRUE),
         linux   |-> KeyEvent("u", FALSE, FALSE, TRUE, FALSE)],
     DELETE_TO_LINE_END |->
        [mac     |-> KeyEvent("k", FALSE, FALSE, TRUE, FALSE),
         windows |-> KeyEvent("Delete", FALSE, FALSE, TRUE, TRUE),
         linux   |-> KeyEvent("k", FALSE, FALSE, TRUE, FALSE)],
     CONTROL_DELETE_TO_START |->
        [mac     |-> KeyEvent("u", FALSE, FALSE, TRUE, FALSE),
         windows |-> KeyEvent("u", FALSE, FALSE, TRUE, FALSE),
         linux   |-> KeyEvent("u", FALSE, FALSE, TRUE, FALSE)],
     SELECT_WORD_LEFT |->
        [mac     |-> KeyEvent("ArrowLeft", FALSE, TRUE, FALSE, TRUE),
         windows |-> KeyEvent("ArrowLeft", FALSE, FALSE, TRUE, TRUE),
         linux   |-> KeyEvent("ArrowLeft", FALSE, FALSE, TRUE, TRUE)],
     SELECT_WORD_RIGHT |->
        [mac     |-> KeyEvent("ArrowRight", FALSE, TRUE, FALSE, TRUE),
         windows |-> KeyEvent("ArrowRight", FALSE, FALSE, TRUE, TRUE),
         linux   |-> KeyEvent("ArrowRight", FALSE, FALSE, TRUE, TRUE)],
     SELECT_TO_LINE_START |->
        [mac     |-> KeyEvent("ArrowLeft", TRUE, FALSE, FALSE, TRUE),
         windows |-> KeyEvent("Home", FALSE, FALSE, FALSE, TRUE),
         linux   |-> KeyEvent("Home", FALSE, FALSE, FALSE, TRUE)],
     SELECT_TO_LINE_END |->
        [mac     |-> KeyEvent("ArrowRight", TRUE, FALSE, FALSE, TRUE),
         windows |-> KeyEvent("End", FALSE, FALSE, FALSE, TRUE),
         linux   |-> KeyEvent("End", FALSE, FALSE, FALSE, TRUE)],
     SELECT_ALL |->
        [mac     |-> KeyEvent("a", TRUE, FALSE, FALSE, FALSE),
         windows |-> KeyEvent("a", FALSE, FALSE, TRUE, FALSE),
         linux   |-> KeyEvent("a", FALSE, FALSE, TRUE, FALSE)],
     SELECT_CHAR_LEFT |->
        [mac     |-> KeyEvent("ArrowLeft", FALSE, FALSE, FALSE, TRUE),
         windows |-> KeyEvent("ArrowLeft", FALSE, FALSE, FALSE, TRUE),
         linux   |-> KeyEvent("ArrowLeft", FALSE, FALSE, FALSE, TRUE)],
     SELECT_CHAR_RIGHT |->
        [mac     |-> KeyEvent("ArrowRight", FALSE, FALSE, FALSE, TRUE),
         windows |-> KeyEvent("ArrowRight", FALSE, FALSE, FALSE, TRUE),
         linux   |-> KeyEvent("ArrowRight", FALSE, FALSE, FALSE, TRUE)],
     CONTROL_LINE_START |->
        [mac     |-> KeyEvent("a", FALSE, FALSE, TRUE, FALSE),
         windows |-> KeyEvent("Home", FALSE, FALSE, FALSE, FALSE),
         linux   |-> KeyEvent("a", FALSE, FALSE, TRUE, FALSE)],
     CONTROL_LINE_END |->
        [mac     |-> KeyEvent("e", FALSE, FALSE, TRUE, FALSE),
         windows |-> KeyEvent("End", FALSE, FALSE, FALSE, FALSE),
         linux   |-> KeyEvent("e", FALSE, FALSE, TRUE, FALSE)],
     CONTROL_FORWARD |->
        [mac     |-> KeyEvent("f", FALSE, FALSE, TRUE, FALSE),
         windows |-> KeyEvent("ArrowRight", FALSE, FALSE, FALSE, FALSE),
         linux   |-> KeyEvent("f", FALSE, FALSE, TRUE, FALSE)],
     CONTROL_BACKWARD |->
        [mac     |-> KeyEvent("b", FALSE, FALSE, TRUE, FALSE),
         windows |-> KeyEvent("ArrowLeft", FALSE, FALSE, FALSE, FALSE),
         linux   |-> KeyEvent("b", FALSE, FALSE, TRUE, FALSE)]]

CommandIds == DOMAIN COMMANDS

\* The keys arrays of COMMANDS: the labels shown for a chord.
COMMAND_KEYS ==
    [DELETE_WORD |->
        [mac     |-> <<"Option", "Delete">>,
         windows |-> <<"Ctrl", "Backspace">>,
         linux   |-> <<"Alt", "Backspace">>],
     DELETE_WORD_FORWARD |->
        [mac     |-> <<"Fn", "Option", "Delete">>,
         windows |-> <<"Ctrl", "Delete">>,
         linux   |-> <<"Alt", "D">>],
     MOVE_WORD_LEFT |->
        [mac     |-> <<"Option", "Left">>,
         windows |-> <<"Ctrl", "Left">>,
         linux   |-> <<"Ctrl", "Left">>],
     MOVE_WORD_RIGHT |->
        [mac     |-> <<"Option", "Right">>,
         windows |-> <<"Ctrl", "Right">>,
         linux   |-> <<"Ctrl", "Right">>],
     JUMP_LINE_START |->
        [mac     |-> <<"Command", "Left">>,
         windows |-> <<"Home">>,
         linux   |-> <<"Home">>],
     JUMP_LINE_END |->
        [mac     |-> <<"Command", "Right">>,
         windows |-> <<"End">>,
         linux   |-> <<"End">>],
     DELETE_TO_LINE_START |->
        [mac     |-> <<"Command", "Delete">>,
         windows |-> <<"Ctrl", "Shift", "Backspace">>,
         linux   |-> <<"Ctrl", "U">>],
     DELETE_TO_LINE_END |->
        [mac     |-> <<"Control", "K">>,
         windows |-> <<"Ctrl", "Shift", "Delete">>,
         linux   |-> <<"Ctrl", "K">>],
     CONTROL_DELETE_TO_START |->
        [mac     |-> <<"Control", "U">>,
         windows |-> <<"Ctrl", "U">>,
         linux   |-> <<"Ctrl", "U">>],
     SELECT_WORD_LEFT |->
        [mac     |-> <<"Option", "Shift", "Left">>,
         windows |-> <<"Ctrl", "Shift", "Left">>,
         linux   |-> <<"Ctrl", "Shift", "Left">>],
     SELECT_WORD_RIGHT |->
        [mac     |-> <<"Option", "Shift", "Right">>,
         windows |-> <<"Ctrl", "Shift", "Right">>,
         linux   |-> <<"Ctrl", "Shift", "Right">>],
     SELECT_TO_LINE_START |->
        [mac     |-> <<"Command", "Shift", "Left">>,
         windows |-> <<"Shift", "Home">>,
         linux   |-> <<"Shift", "Home">>],
     SELECT_TO_LINE_END |->
        [mac     |-> <<"Command", "Shift", "Right">>,
         windows |-> <<"Shift", "End">>,
         linux   |-> <<"Shift", "End">>],
     SELECT_ALL |->
        [mac     |-> <<"Command", "A">>,
         windows |-> <<"Ctrl", "A">>,
         linux   |-> <<"Ctrl", "A">>],
     SELECT_CHAR_LEFT |->
        [mac     |-> <<"Shift", "Left">>,
         windows |-> <<"Shift", "Left">>,
         linux   |-> <<"Shift", "Left">>],
     SELECT_CHAR_RIGHT |->
        [mac     |-> <<"Shift", "Right">>,
         windows |-> <<"Shift", "Right">>,
         linux   |-> <<"Shift", "Right">>],
     CONTROL_LINE_START |->
        [mac     |-> <<"Control", "A">>,
         windows |-> <<"Home">>,
         linux   |-> <<"Ctrl", "A">>],
     CONTROL_LINE_END |->
        [mac     |-> <<"Control", "E">>,
         windows |-> <<"End">>,
         linux   |-> <<"Ctrl", "E">>],
     CONTROL_FORWARD |->
        [mac     |-> <<"Control", "F">>,
         windows |-> <<"Right">>,
         linux   |-> <<"Ctrl", "F">>],
     CONTROL_BACKWARD |->
        [mac     |-> <<"Control", "B">>,
         windows |-> <<"Left">>,
         linux   |-> <<"Ctrl", "B">>]]

NullCommand == [null |-> TRUE, keys |-> <<>>, keyCode |-> NoEvent]

\* A variant without the fallback: null for an os the command does not define.
getCommandForOSNoFallback(id, osv) ==
    IF id \notin DOMAIN COMMANDS \/ osv \notin OSes THEN NullCommand
    ELSE [null |-> FALSE, keys |-> COMMAND_KEYS[id][osv], keyCode |-> COMMANDS[id][osv]]

\* getCommandForOS(commandType, os): null for an unknown id; osConfig is
\* command[os] || command.mac, the mac entry for an os the command has no
\* property for.  command.name and command.description are strings, truthy
\* and without keys or keyCode.
getCommandForOS(id, osv) ==
    IF id \notin DOMAIN COMMANDS THEN NullCommand
    ELSE LET properties == {"name", "description"} \cup OSes
             osName     == IF osv \in properties THEN osv ELSE "mac"
         IN  IF osName \in OSes
             THEN [null |-> FALSE, keys |-> COMMAND_KEYS[id][osName],
                   keyCode |-> COMMANDS[id][osName]]
             ELSE [null |-> FALSE, keys |-> Undefined, keyCode |-> Undefined]

\* The editor call each command stands for: the calls of the on-screen
\* keyboard, and for the commands it does not offer the call their
\* description names.
MOBILE_COMMAND_ACTIONS ==
    [MOVE_WORD_LEFT       |-> "moveByWord_left",
     MOVE_WORD_RIGHT      |-> "moveByWord_right",
     JUMP_LINE_START      |-> "moveToLineStart",
     JUMP_LINE_END        |-> "moveToLineEnd",
     SELECT_WORD_LEFT     |-> "selectByWord_left",
     SELECT_WORD_RIGHT    |-> "selectByWord_right",
     SELECT_TO_LINE_START |-> "selectToLineStart",
     SELECT_TO_LINE_END   |-> "selectToLineEnd",
     SELECT_ALL           |-> "selectAll",
     DELETE_WORD          |-> "deleteWord",
     DELETE_WORD_FORWARD  |-> "deleteWordForward",
     DELETE_TO_LINE_START |-> "deleteToLineStart",
     DELETE_TO_LINE_END   |-> "deleteToLineEnd"]

DescribedOperation ==
    [CONTROL_DELETE_TO_START |-> "deleteToLineStart",
     SELECT_CHAR_LEFT        |-> "extendSelection_left",
     SELECT_CHAR_RIGHT       |-> "extendSelection_right",
     CONTROL_LINE_START      |-> "moveToLineStart",
     CONTROL_LINE_END        |-> "moveToLineEnd",
     CONTROL_FORWARD         |-> "moveCursorRight",
     CONTROL_BACKWARD        |-> "moveCursorLeft"]

\* getCommand(commandType, os)
getCommand(id, osv) == getCommandForOS(id, osv)

CommandOperation(id) ==
    IF id \in DOMAIN MOBILE_COMMAND_ACTIONS THEN MOBILE_COMMAND_ACTIONS[id]
    ELSE DescribedOperation[id]

(***************************************************************************)
(* challenges.js: sample texts and the generator's own boundary finders.   *)
(***************************************************************************)
TEXT_POOL ==
    <<
    \* const result = calculateSum(a, b)
    <<"c","o","n","s","t"," ","r","e","s","u","l","t"," ","="," ","c","a","l","c","u","l","a","t","e","S","u","m","(","a",","," ","b",")">>,
    \* function handleClick(event) { return true }
    <<"f","u","n","c","t","i","o","n"," ","h","a","n","d","l","e","C","l","i","c","k","(","e","v","e","n","t",")"," ","{"," ","r","e","t","u","r","n"," ","t","r","u","e"," ","}">>,
    \* import React from 'react'
    <<"i","m","p","o","r","t"," ","R","e","a","c","t"," ","f","r","o","m"," ","'","r","e","a","c","t","'">>,
    \* let counter = 0
    <<"l","e","t"," ","c","o","u","n","t","e","r"," ","="," ","0">>,
    \* console.log('Hello World')
    <<"c","o","n","s","o","l","e",".","l","o","g","(","'","H","e","l","l","o"," ","W","o","r","l","d","'",")">>,
    \* const users = await fetchData()
    <<"c","o","n","s","t"," ","u","s","e","r","s"," ","="," ","a","w","a","i","t"," ","f","e","t","c","h","D","a","t","a","(",")">>,
    \* export default function App()
    <<"e","x","p","o","r","t"," ","d","e","f","a","u","l","t"," ","f","u","n","c","t","i","o","n"," ","A","p","p","(",")">>,
    \* npm install lodash --save
    <<"n","p","m"," ","i","n","s","t","a","l","l"," ","l","o","d","a","s","h"," ","-","-","s","a","v","e">>,
    \* git commit -m 'Initial commit'
    <<"g","i","t"," ","c","o","m","m","i","t"," ","-","m"," ","'","I","n","i","t","i","a","l"," ","c","o","m","m","i","t","'">>,
    \* docker run -p 3000:3000 myapp
    <<"d","o","c","k","e","r"," ","r","u","n"," ","-","p"," ","3","0","0","0",":","3","0","0","0"," ","m","y","a","p","p">>,
    \* SELECT * FROM users WHERE id = 1
    <<"S","E","L","E","C","T"," ","*"," ","F","R","O","M"," ","u","s","e","r","s"," ","W","H","E","R","E"," ","i","d"," ","="," ","1">>,
    \* python manage.py runserver
    <<"p","y","t","h","o","n"," ","m","a","n","a","g","e",".","p","y"," ","r","u","n","s","e","r","v","e","r">>,
    \* curl https://api.example.com/data
    <<"c","u","r","l"," ","h","t","t","p","s",":","/","/","a","p","i",".","e","x","a","m","p","l","e",".","c","o","m","/","d","a","t","a">>,
    \* ssh user@remote-server.com
    <<"s","s","h"," ","u","s","e","r","@","r","e","m","o","t","e","-","s","e","r","v","e","r",".","c","o","m">>,
    \* chmod 755 script.sh
    <<"c","h","m","o","d"," ","7","5","5"," ","s","c","r","i","p","t",".","s","h">>,
    \* grep -r 'pattern' ./src
    <<"g","r","e","p"," ","-","r"," ","'","p","a","t","t","e","r","n","'"," ",".","/","s","r","c">>,
    \* cd /var/www/html
    <<"c","d"," ","/","v","a","r","/","w","w","w","/","h","t","m","l">>,
    \* tar -xzvf archive.tar.gz
    <<"t","a","r"," ","-","x","z","v","f"," ","a","r","c","h","i","v","e",".","t","a","r",".","g","z">>,
    \* vim ~/.bashrc
    <<"v","i","m"," ","~","/",".","b","a","s","h","r","c">>,
    \* brew install node
    <<"b","r","e","w"," ","i","n","s","t","a","l","l"," ","n","o","d","e">>,
    \* const data = JSON.parse(response)
    <<"c","o","n","s","t"," ","d","a","t","a"," ","="," ","J","S","O","N",".","p","a","r","s","e","(","r","e","s","p","o","n","s","e",")">>,
    \* return items.filter(x => x.active)
    <<"r","e","t","u","r","n"," ","i","t","e","m","s",".","f","i","l","t","e","r","(","x"," ","=",">"," ","x",".","a","c","t","i","v","e",")">>,
    \* class UserService extends BaseService
    <<"c","l","a","s","s"," ","U","s","e","r","S","e","r","v","i","c","e"," ","e","x","t","e","n","d","s"," ","B","a","s","e","S","e","r","v","i","c","e">>,
    \* interface Config { port: number }
    <<"i","n","t","e","r","f","a","c","e"," ","C","o","n","f","i","g"," ","{"," ","p","o","r","t",":"," ","n","u","m","b","e","r"," ","}">>,
    \* throw new Error('Invalid input')
    <<"t","h","r","o","w"," ","n","e","w"," ","E","r","r","o","r","(","'","I","n","v","a","l","i","d"," ","i","n","p","u","t","'",")">>,
    \* try { await connect() } catch (e) {}
    <<"t","r","y"," ","{"," ","a","w","a","i","t"," ","c","o","n","n","e","c","t","(",")"," ","}"," ","c","a","t","c","h"," ","(","e",")"," ","{","}">>,
    \* const [state, setState] = useState()
    <<"c","o","n","s","t"," ","[","s","t","a","t","e",","," ","s","e","t","S","t","a","t","e","]"," ","="," ","u","s","e","S","t","a","t","e","(",")">>,
    \* addEventListener('click', handler)
    <<"a","d","d","E","v","e","n","t","L","i","s","t","e","n","e","r","(","'","c","l","i","c","k","'",","," ","h","a","n","d","l","e","r",")">>,
    \* document.getElementById('root')
    <<"d","o","c","u","m","e","n","t",".","g","e","t","E","l","e","m","e","n","t","B","y","I","d","(","'","r","o","o","t","'",")">>,
    \* process.env.NODE_ENV === 'production'
    <<"p","r","o","c","e","s","s",".","e","n","v",".","N","O","D","E","_","E","N","V"," ","=","=","="," ","'","p","r","o","d","u","c","t","i","o","n","'">>
    >>

\* Math.floor(Math.random() * n): every value it can take.
RandomBelow(n) == IF n > 0 THEN 0..(n - 1) ELSE n..0

\* getRandomItem(array)
getRandomItem(array) == {array[k + 1] : k \in RandomBelow(Len(array))}

\* End of the run of non-whitespace characters that starts at i.
RECURSIVE MatchEnd(_, _)
MatchEnd(t, i) ==
    IF i < Len(t) /\ ~IsWhitespace(CharAt(t, i)) THEN MatchEnd(t, i + 1) ELSE i

\* The matches of /\S+/g from index i on.
RECURSIVE WordsFrom(_, _)
WordsFrom(t, i) ==
    IF i >= Len(t) THEN <<>>
    ELSE IF IsWhitespace(CharAt(t, i)) THEN WordsFrom(t, i + 1)
    ELSE <<[start |-> i, end |-> MatchEnd(t, i)]>> \o WordsFrom(t, MatchEnd(t, i))

findWordBoundaries(t) == WordsFrom(t, 0)

RECURSIVE LeftSkipWhitespace(_, _)
LeftSkipWhitespace(t, pos) ==
    IF pos > 0 /\ IsWhitespace(CharAt(t, pos)) THEN LeftSkipWhitespace(t, pos - 1) ELSE pos

RECURSIVE LeftSkipWord(_, _)
LeftSkipWord(t, pos) ==
    IF pos > 0 /\ IsNonWhitespace(CharAt(t, pos - 1)) THEN LeftSkipWord(t, pos - 1) ELSE pos

\* A variant that starts at the cursor, not one before it.
findWordBoundaryLeftFromCursor(t, cursorPos) ==
    IF cursorPos = 0 THEN 0
    ELSE LeftSkipWord(t, LeftSkipWhitespace(t, cursorPos))

\* A variant that does not skip the whitespace before the cursor.
findWordBoundaryLeftKeepWhitespace(t, cursorPos) ==
    IF cursorPos = 0 THEN 0
    ELSE LeftSkipWord(t, cursorPos - 1)

findWordBoundaryLeft(t, cursorPos) ==
    IF cursorPos = 0 THEN 0
    ELSE LeftSkipWord(t, LeftSkipWhitespace(t, cursorPos - 1))

RECURSIVE RightSkipWord(_, _)
RightSkipWord(t, pos) ==
    IF pos < Len(t) /\ IsNonWhitespace(CharAt(t, pos)) THEN RightSkipWord(t, pos + 1) ELSE pos

RECURSIVE RightSkipWhitespace(_, _)
RightSkipWhitespace(t, pos) ==
    IF pos < Len(t) /\ IsWhitespace(CharAt(t, pos))
    THEN RightSkipWhitespace(t, pos + 1) ELSE pos

\* A variant that stops at the end of the word, before the whitespace.
findWordBoundaryRightNoGap(t, cursorPos) ==
    IF cursorPos >= Len(t) THEN Len(t)
    ELSE RightSkipWord(t, cursorPos)

findWordBoundaryRight(t, cursorPos) ==
    IF cursorPos >= Len(t) THEN Len(t)
    ELSE RightSkipWhitespace(t, RightSkipWord(t, cursorPos))

(***************************************************************************)
(* challenges.js: the challenge generators.  A generator is the set of the *)
(* challenges it can return, one per outcome of Math.random; kind "null"   *)
(* is the null it returns for a text of fewer than two words.              *)
(***************************************************************************)
NoExpectedSelection == [present |-> FALSE, start |-> 0, end |-> 0]
ExpectedSelection(s, e) == [present |-> TRUE, start |-> s, end |-> e]

Challenge(t, c, expectedText, expectedCursor, expectedSelection, id, osv) ==
    [kind |-> "challenge", error |-> <<>>, text |-> t, cursorPosition |-> c,
     expectedResult |-> [text |-> expectedText, cursorPosition |-> expectedCursor,
                         selection |-> expectedSelection],
     command |-> getCommandForOS(id, osv)]

NullChallenge ==
    [kind |-> "null", error |-> <<>>, text |-> <<>>, cursorPosition |-> 0,
     expectedResult |-> [text |-> <<>>, cursorPosition |-> 0,
                         selection |-> NoExpectedSelection],
     command |-> NullCommand]

\* words[i] with the index of the source, from 0.
WordAt(words, i) == words[i + 1]

\* Math.min(5, Math.floor(text.length / 4))
LineMargin(t) == Min(5, Len(t) \div 4)

\* A variant whose expected text also drops the character before the word.
generateDeleteWordChallengeTrimmed(t, osv) ==
    LET words == findWordBoundaries(t)
    IN  IF Len(words) < 2 THEN {NullChallenge}
        ELSE {LET c         == WordAt(words, r + 1).end
                  wordStart == findWordBoundaryLeft(t, c)
              IN  Challenge(t, c, Slice(t, 0, wordStart - 1) \o SliceFrom(t, c),
                            wordStart, NoExpectedSelection, "DELETE_WORD", osv)
              : r \in RandomBelow(Len(words) - 1)}

generateDeleteWordChallenge(t, osv) ==
    LET words == findWordBoundaries(t)
    IN  IF Len(words) < 2 THEN {NullChallenge}
        ELSE {LET c         == WordAt(words, r + 1).end
                  wordStart == findWordBoundaryLeft(t, c)
              IN  Challenge(t, c, Slice(t, 0, wordStart) \o SliceFrom(t, c), wordStart,
                            NoExpectedSelection, "DELETE_WORD", osv)
              : r \in RandomBelow(Len(words) - 1)}

generateDeleteWordForwardChallenge(t, osv) ==
    LET words == findWordBoundaries(t)
    IN  IF Len(words) < 2 THEN {NullChallenge}
        ELSE {LET c       == WordAt(words, r).start
                  wordEnd == findWordBoundaryRight(t, c)
              IN  Challenge(t, c, Slice(t, 0, c) \o SliceFrom(t, wordEnd), c,
                            NoExpectedSelection, "DELETE_WORD_FORWARD", osv)
              : r \in RandomBelow(Len(words) - 1)}

generateMoveWordLeftChallenge(t, osv) ==
    LET words == findWordBoundaries(t)
    IN  IF Len(words) < 2 THEN {NullChallenge}
        ELSE {LET c == WordAt(words, r + 1).end
              IN  Challenge(t, c, t, findWordBoundaryLeft(t, c),
                            NoExpectedSelection, "MOVE_WORD_LEFT", osv)
              : r \in RandomBelow(Len(words) - 1)}

\* A variant that may also start from the last word.
generateMoveWordRightChallengeAnyWord(t, osv) ==
    LET words == findWordBoundaries(t)
    IN  IF Len(words) < 2 THEN {NullChallenge}
        ELSE {LET c == WordAt(words, r).start
              IN  Challenge(t, c, t, findWordBoundaryRight(t, c),
                            NoExpectedSelection, "MOVE_WORD_RIGHT", osv)
              : r \in RandomBelow(Len(words))}

generateMoveWordRightChallenge(t, osv) ==
    LET words == findWordBoundaries(t)
    IN  IF Len(words) < 2 THEN {NullChallenge}
        ELSE {LET c == WordAt(words, r).start
              IN  Challenge(t, c, t, findWordBoundaryRight(t, c),
                            NoExpectedSelection, "MOVE_WORD_RIGHT", osv)
              : r \in RandomBelow(Len(words) - 1)}

\* A variant that may leave the cursor at 0.
generateJumpLineStartChallengeFromZero(t, osv) ==
    {Challenge(t, r, t, 0, NoExpectedSelection, "JUMP_LINE_START", osv)
     : r \in RandomBelow(Len(t))}

generateJumpLineStartChallenge(t, osv) ==
    {Challenge(t, r + 1, t, 0, NoExpectedSelection, "JUMP_LINE_START", osv)
     : r \in RandomBelow(Len(t) - 1)}

\* A variant that expects the cursor on the last character, not after it.
generateJumpLineEndChallengeLastChar(t, osv) ==
    {Challenge(t, r, t, Len(t) - 1, NoExpectedSelection, "JUMP_LINE_END", osv)
     : r \in RandomBelow(Len(t) - 1)}

generateJumpLineEndChallenge(t, osv) ==
    {Challenge(t, r, t, Len(t), NoExpectedSelection, "JUMP_LINE_END", osv)
     : r \in RandomBelow(Len(t) - 1)}

generateDeleteToLineStartChallenge(t, osv) ==
    LET minPos == LineMargin(t)
    IN  {Challenge(t, r + minPos, SliceFrom(t, r + minPos), 0,
                   NoExpectedSelection, "DELETE_TO_LINE_START", osv)
         : r \in RandomBelow(Len(t) - minPos)}

generateDeleteToLineEndChallenge(t, osv) ==
    LET maxPos == Len(t) - LineMargin(t)
    IN  {Challenge(t, r, Slice(t, 0, r), r,
                   NoExpectedSelection, "DELETE_TO_LINE_END", osv)
         : r \in RandomBelow(maxPos)}

generateControlDeleteToStartChallenge(t, osv) ==
    LET minPos == LineMargin(t)
    IN  {Challenge(t, r + minPos, SliceFrom(t, r + minPos), 0,
                   NoExpectedSelection, "CONTROL_DELETE_TO_START", osv)
         : r \in RandomBelow(Len(t) - minPos)}

\* A variant that may also pick the first word.
generateSelectWordLeftChallengeAnyWord(t, osv) ==
    LET words == findWordBoundaries(t)
    IN  IF Len(words) < 2 THEN {NullChallenge}
        ELSE {LET c              == WordAt(words, r).end
                  selectionStart == findWordBoundaryLeft(t, c)
              IN  Challenge(t, c, t, selectionStart,
                            ExpectedSelection(selectionStart, c), "SELECT_WORD_LEFT", osv)
              : r \in RandomBelow(Len(words))}

generateSelectWordLeftChallenge(t, osv) ==
    LET words == findWordBoundaries(t)
    IN  IF Len(words) < 2 THEN {NullChallenge}
        ELSE {LET c              == WordAt(words, r + 1).end
                  selectionStart == findWordBoundaryLeft(t, c)
              IN  Challenge(t, c, t, selectionStart,
                            ExpectedSelection(selectionStart, c), "SELECT_WORD_LEFT", osv)
              : r \in RandomBelow(Len(words) - 1)}

generateSelectWordRightChallenge(t, osv) ==
    LET words == findWordBoundaries(t)
    IN  IF Len(words) < 2 THEN {NullChallenge}
        ELSE {LET c            == WordAt(words, r).start
                  selectionEnd == findWordBoundaryRight(t, c)
              IN  Challenge(t, c, t, selectionEnd,
                            ExpectedSelection(c, selectionEnd), "SELECT_WORD_RIGHT", osv)
              : r \in RandomBelow(Len(words) - 1)}

generateSelectToLineStartChallenge(t, osv) ==
    LET minPos == LineMargin(t)
    IN  {Challenge(t, r + minPos, t, 0, ExpectedSelection(0, r + minPos),
                   "SELECT_TO_LINE_START", osv)
         : r \in RandomBelow(Len(t) - minPos)}

generateSelectToLineEndChallenge(t, osv) ==
    LET maxPos == Len(t) - LineMargin(t)
    IN  {Challenge(t, r, t, Len(t), ExpectedSelection(r, Len(t)),
                   "SELECT_TO_LINE_END", osv)
         : r \in RandomBelow(maxPos)}

generateSelectAllChallenge(t, osv) ==
    {Challenge(t, r, t, Len(t), ExpectedSelection(0, Len(t)), "SELECT_ALL", osv)
     : r \in RandomBelow(Len(t))}

generateSelectCharLeftChallenge(t, osv) ==
    {Challenge(t, r + 1, t, r, ExpectedSelection(r, r + 1), "SELECT_CHAR_LEFT", osv)
     : r \in RandomBelow(Len(t) - 1)}

generateSelectCharRightChallenge(t, osv) ==
    {Challenge(t, r, t, r + 1, ExpectedSelection(r, r + 1), "SELECT_CHAR_RIGHT", osv)
     : r \in RandomBelow(Len(t) - 1)}

generateControlLineStartChallenge(t, osv) ==
    {Challenge(t, r + 1, t, 0, NoExpectedSelection, "CONTROL_LINE_START", osv)
     : r \in RandomBelow(Len(t) - 1)}

generateControlLineEndChallenge(t, osv) ==
    {Challenge(t, r, t, Len(t), NoExpectedSelection, "CONTROL_LINE_END", osv)
     : r \in RandomBelow(Len(t) - 1)}

generateControlForwardChallenge(t, osv) ==
    {Challenge(t, r, t, r + 1, NoExpectedSelection, "CONTROL_FORWARD", osv)
     : r \in RandomBelow(Len(t) - 1)}

generateControlBackwardChallenge(t, osv) ==
    {Challenge(t, r + 1, t, r, NoExpectedSelection, "CONTROL_BACKWARD", osv)
     : r \in RandomBelow(Len(t) - 1)}

\* CHALLENGE_GENERATORS[id](text, os)
CHALLENGE_GENERATORS(id, t, osv) ==
    CASE id = "DELETE_WORD"             -> generateDeleteWordChallenge(t, osv)
      [] id = "DELETE_WORD_FORWARD"     -> generateDeleteWordForwardChallenge(t, osv)
      [] id = "MOVE_WORD_LEFT"          -> generateMoveWordLeftChallenge(t, osv)
      [] id = "MOVE_WORD_RIGHT"         -> generateMoveWordRightChallenge(t, osv)
      [] id = "JUMP_LINE_START"         -> generateJumpLineStartChallenge(t, osv)
      [] id = "JUMP_LINE_END"           -> generateJumpLineEndChallenge(t, osv)
      [] id = "DELETE_TO_LINE_START"    -> generateDeleteToLineStartChallenge(t, osv)
      [] id = "DELETE_TO_LINE_END"      -> generateDeleteToLineEndChallenge(t, osv)
      [] id = "CONTROL_DELETE_TO_START" -> generateControlDeleteToStartChallenge(t, osv)
      [] id = "SELECT_WORD_LEFT"        -> generateSelectWordLeftChallenge(t, osv)
      [] id = "SELECT_WORD_RIGHT"       -> generateSelectWordRightChallenge(t, osv)
      [] id = "SELECT_TO_LINE_START"    -> generateSelectToLineStartChallenge(t, osv)
      [] id = "SELECT_TO_LINE_END"      -> generateSelectToLineEndChallenge(t, osv)
      [] id = "SELECT_ALL"              -> generateSelectAllChallenge(t, osv)
      [] id = "SELECT_CHAR_LEFT"        -> generateSelectCharLeftChallenge(t, osv)
      [] id = "SELECT_CHAR_RIGHT"       -> generateSelectCharRightChallenge(t, osv)
      [] id = "CONTROL_LINE_START"      -> generateControlLineStartChallenge(t, osv)
      [] id = "CONTROL_LINE_END"        -> generateControlLineEndChallenge(t, osv)
      [] id = "CONTROL_FORWARD"         -> generateControlForwardChallenge(t, osv)
      [] id = "CONTROL_BACKWARD"        -> generateControlBackwardChallenge(t, osv)

GeneratorIds ==
    {"DELETE_WORD", "DELETE_WORD_FORWARD", "MOVE_WORD_LEFT", "MOVE_WORD_RIGHT",
     "JUMP_LINE_START", "JUMP_LINE_END", "DELETE_TO_LINE_START", "DELETE_TO_LINE_END",
     "CONTROL_DELETE_TO_START", "SELECT_WORD_LEFT", "SELECT_WORD_RIGHT",
     "SELECT_TO_LINE_START", "SELECT_TO_LINE_END", "SELECT_ALL", "SELECT_CHAR_LEFT",
     "SELECT_CHAR_RIGHT", "CONTROL_LINE_START", "CONTROL_LINE_END", "CONTROL_FORWARD",
     "CONTROL_BACKWARD"}

\* A variant whose message leaves the id out.
ThrownChallengeNoId(id) ==
    [NullChallenge EXCEPT !.kind = "throw", !.error = <<"Unknown command type: ">>]

\* throw new Error(`Unknown command type: ${selectedCommand}`)
ThrownChallenge(id) ==
    [NullChallenge EXCEPT !.kind = "throw", !.error = <<"Unknown command type: ", id>>]

\* A variant that returns the generator's null instead of trying a pool text.
generateChallengeNoRetry(id, customText, osv) ==
    LET texts == IF customText # <<>> THEN {customText} ELSE getRandomItem(TEXT_POOL)
    IN  IF id \notin GeneratorIds THEN {ThrownChallenge(id)}
        ELSE UNION {CHALLENGE_GENERATORS(id, t, osv) : t \in texts}

\* generateChallenge(commandType, customText, null, os).  An empty customText
\* is falsy, as null is: the text is then drawn from the pool.  A generator
\* that returned null is run once more on a pool text and its result
\* returned as it is.
\* NAVIGATION_COMMANDS, SELECTION_COMMANDS and DELETION_COMMANDS.
CATEGORY_COMMANDS ==
    [navigation |-> <<"MOVE_WORD_LEFT", "MOVE_WORD_RIGHT", "JUMP_LINE_START",
                      "JUMP_LINE_END", "CONTROL_LINE_START", "CONTROL_LINE_END",
                      "CONTROL_FORWARD", "CONTROL_BACKWARD">>,
     selection  |-> <<"SELECT_WORD_LEFT", "SELECT_WORD_RIGHT", "SELECT_TO_LINE_START",
                      "SELECT_TO_LINE_END", "SELECT_ALL", "SELECT_CHAR_LEFT",
                      "SELECT_CHAR_RIGHT">>,
     deletion   |-> <<"DELETE_WORD", "DELETE_WORD_FORWARD", "DELETE_TO_LINE_START",
                      "DELETE_TO_LINE_END", "CONTROL_DELETE_TO_START">>]

\* A variant that enables a category only when its flag is not true.
availableCommandsInverted(enabledCategories) ==
    LET enabled(c) == enabledCategories[c] # "true"
        list(c)    == IF enabled(c) THEN CATEGORY_COMMANDS[c] ELSE <<>>
        commands   == list("navigation") \o list("selection") \o list("deletion")
    IN  IF Len(commands) = 0
        THEN CATEGORY_COMMANDS.navigation \o CATEGORY_COMMANDS.selection
             \o CATEGORY_COMMANDS.deletion
        ELSE commands

\* availableCommands of generateChallenge when it is given no command type
\* and an object of enabled categories. A flag is "true", "false" or
\* Undefined (absent or null); x ?? true is true for Undefined.
availableCommands(enabledCategories) ==
    LET ALL_COMMANDS == CATEGORY_COMMANDS.navigation \o CATEGORY_COMMANDS.selection
                        \o CATEGORY_COMMANDS.deletion
        categories(c) == IF enabledCategories[c] = Undefined THEN TRUE
                         ELSE enabledCategories[c] = "true"
        list(c)       == IF categories(c) THEN CATEGORY_COMMANDS[c] ELSE <<>>
        commands      == list("navigation") \o list("selection") \o list("deletion")
    IN  IF Len(commands) = 0 THEN ALL_COMMANDS ELSE commands

generateChallenge(id, customText, osv) ==
    LET texts == IF customText # <<>> THEN {customText} ELSE getRandomItem(TEXT_POOL)
    IN  IF id \notin GeneratorIds THEN {ThrownChallenge(id)}
        ELSE UNION {LET first == CHALLENGE_GENERATORS(id, t, osv)
                    IN  (first \ {NullChallenge}) \cup
                        (IF NullChallenge \in first
                         THEN UNION {CHALLENGE_GENERATORS(id, newText, osv)
                                     : newText \in getRandomItem(TEXT_POOL)}
                         ELSE {})
                    : t \in texts}

(***************************************************************************)
(* challenges.js: the validator.                                           *)
(***************************************************************************)
\* The result handed to validateChallenge: selection is null or [start, end].
UserResult(t, c, sel) == [text |-> t, cursorPosition |-> c, selection |-> sel]
NoUserSelection == [present |-> FALSE, start |-> 0, end |-> 0]
UserSelection(s, e) == [present |-> TRUE, start |-> s, end |-> e]

\* A variant that compares the selection even when none is expected.
validateChallengeAlwaysSelection(ch, user) ==
    LET expectedResult == ch.expectedResult
        textMatch      == user.text = expectedResult.text
        cursorMatch    == user.cursorPosition = expectedResult.cursorPosition
        selectionMatch ==
            IF expectedResult.selection.present
            THEN /\ user.selection.present
                 /\ user.selection.start = expectedResult.selection.start
                 /\ user.selection.end = expectedResult.selection.end
            ELSE ~user.selection.present
    IN  [success |-> textMatch /\ cursorMatch /\ selectionMatch,
         textMatch |-> textMatch, cursorMatch |-> cursorMatch,
         selectionMatch |-> selectionMatch,
         details |-> (IF textMatch THEN <<>> ELSE <<"text">>) \o
                     (IF cursorMatch THEN <<>> ELSE <<"cursor">>) \o
                     (IF selectionMatch THEN <<>> ELSE <<"selection">>)]

\* validateChallenge(challenge, userResult): the three checks in their
\* order; details lists the type of each mismatch found.
validateChallenge(ch, user) ==
    LET expectedResult == ch.expectedResult
        textMatch      == user.text = expectedResult.text
        cursorMatch    == user.cursorPosition = expectedResult.cursorPosition
        \* userResult.selection || [cursorPosition, cursorPosition]
        userStart      == IF user.selection.present THEN user.selection.start
                          ELSE user.cursorPosition
        userEnd        == IF user.selection.present THEN user.selection.end
                          ELSE user.cursorPosition
        selectionMatch ==
            IF expectedResult.selection.present
            THEN ~(userStart # expectedResult.selection.start
                   \/ userEnd # expectedResult.selection.end)
            ELSE TRUE
    IN  [success |-> textMatch /\ cursorMatch /\ selectionMatch,
         textMatch |-> textMatch, cursorMatch |-> cursorMatch,
         selectionMatch |-> selectionMatch,
         details |-> (IF textMatch THEN <<>> ELSE <<"text">>) \o
                     (IF cursorMatch THEN <<>> ELSE <<"cursor">>) \o
                     (IF selectionMatch THEN <<>> ELSE <<"selection">>)]

(***************************************************************************)
(* game.js: the Game engine.  A Game is the record of its fields;          *)
(* timerInterval tells whether the field holds an interval handle and      *)
(* intervals counts the countdown intervals that are set and not cleared.  *)
(***************************************************************************)
TimerModes == [SHORT |-> 15, MEDIUM |-> 30, LONG |-> 60]

\* new Game({ duration })
NewGame(duration) ==
    [state |-> "idle", duration |-> duration, timeRemaining |-> duration,
     timerInterval |-> FALSE, intervals |-> 0, listeners |-> TRUE,
     commandsAttempted |-> 0, commandsCompleted |-> 0]

\* clearInterval(this.timerInterval); this.timerInterval = null, when set.
clearTimerInterval(g) ==
    IF g.timerInterval
    THEN [g EXCEPT !.timerInterval = FALSE, !.intervals = @ - 1]
    ELSE g

\* A variant that starts the game from any state.
startFromAnyState(g) ==
    [g EXCEPT !.state = "active", !.timeRemaining = g.duration,
              !.timerInterval = TRUE, !.intervals = @ + 1]

\* Game.start()
start(g) ==
    IF g.state # "idle" THEN g
    ELSE [g EXCEPT !.state = "active", !.timeRemaining = g.duration,
                   !.timerInterval = TRUE, !.intervals = @ + 1]

\* Game.end()
end(g) ==
    IF g.state = "finished" THEN g
    ELSE [clearTimerInterval(g) EXCEPT !.state = "finished"]

\* A variant that stops counting at zero without ending the game.
tickNoEnd(g) ==
    IF g.state # "active" \/ g.timeRemaining <= 0 THEN g
    ELSE [g EXCEPT !.timeRemaining = @ - 1]

\* A variant that keeps counting down after the game has finished.
tickInAnyState(g) ==
    LET ticked == [g EXCEPT !.timeRemaining = @ - 1]
    IN  IF ticked.timeRemaining <= 0 THEN end(ticked) ELSE ticked

\* Game.tick()
tick(g) ==
    IF g.state # "active" THEN g
    ELSE LET ticked == [g EXCEPT !.timeRemaining = @ - 1]
         IN  IF ticked.timeRemaining <= 0 THEN end(ticked) ELSE ticked

\* A variant that counts the attempt in any state.
handleCommandAttemptInAnyState(g, success) ==
    LET started == IF g.state = "idle" THEN start(g) ELSE g
    IN  [started EXCEPT !.commandsAttempted = @ + 1,
                        !.commandsCompleted = IF success THEN @ + 1 ELSE @]

\* Game.handleCommandAttempt(success)
handleCommandAttempt(g, success) ==
    LET started == IF g.state = "idle" THEN start(g) ELSE g
    IN  IF started.state # "active" THEN started
        ELSE [started EXCEPT !.commandsAttempted = @ + 1,
                             !.commandsCompleted = IF success THEN @ + 1 ELSE @]

\* Game.reset()
reset(g) ==
    [clearTimerInterval(g) EXCEPT !.state = "idle", !.timeRemaining = g.duration,
                                  !.commandsAttempted = 0, !.commandsCompleted = 0]

\* Game.setDuration(seconds): seconds is the record of its type and, for a
\* number, its value.
setDuration(g, seconds) ==
    IF g.state # "idle" THEN g
    ELSE IF seconds.typeof # "number" \/ seconds.value < 1 THEN g
    ELSE [g EXCEPT !.duration = seconds.value, !.timeRemaining = seconds.value]

\* Game.pause()
pause(g) ==
    IF g.state # "active" THEN g ELSE clearTimerInterval(g)

\* A variant that creates an interval while one is running.
resumeAgain(g) ==
    IF g.state # "active" THEN g
    ELSE [g EXCEPT !.timerInterval = TRUE, !.intervals = @ + 1]

\* Game.resume()
resume(g) ==
    IF g.state # "active" \/ g.timerInterval THEN g
    ELSE [g EXCEPT !.timerInterval = TRUE, !.intervals = @ + 1]

\* Game.destroy()
destroy(g) ==
    [clearTimerInterval(g) EXCEPT !.listeners = FALSE]

\* The events a call of a method on g emits, in order: the this.emit calls
\* of start, tick, end and handleCommandAttempt.
emits(g, method, success) ==
    LET gameStart == IF g.state = "idle" THEN <<"gameStart">> ELSE <<>>
        gameEnd   == IF g.state # "finished" THEN <<"gameEnd">> ELSE <<>>
    IN  CASE method = "start" -> gameStart
          [] method = "end"   -> gameEnd
          [] method = "tick"  ->
                IF g.state # "active" THEN <<>>
                ELSE <<"timerTick">> \o
                     (IF g.timeRemaining - 1 <= 0 THEN <<"gameEnd">> ELSE <<>>)
          [] method = "handleCommandAttempt" ->
                gameStart \o
                (IF start(g).state # "active" THEN <<>>
                 ELSE IF success THEN <<"commandSuccess">> ELSE <<"commandFail">>)
          [] OTHER -> <<>>

(***************************************************************************)
(* main.js: the game handlers.  The app record holds the two flags and the *)
(* number of pending setTimeout callbacks of each kind; app.currentChallenge*)
(* is the variable challenge and app.terminal the editor.                  *)
(***************************************************************************)
NewApp ==
    [hasStarted |-> FALSE, isShowingResults |-> FALSE,
     checkCommand |-> 0, loadNextChallenge |-> 0, setupChallengeInTerminal |-> 0]

\* startGame()
startGame(a, g) == [app |-> [a EXCEPT !.hasStarted = TRUE], game |-> start(g)]

\* handleGameEnd(results), the listener of the gameEnd event.
handleGameEnd(a) == [a EXCEPT !.hasStarted = FALSE, !.isShowingResults = TRUE]

\* handleTerminalKeydown(event): the first press with a modifier starts the
\* game; while the game is started every press schedules a checkCommand.
handleTerminalKeydown(a, g, e) ==
    IF e.key \in {"Shift", "Control", "Alt", "Meta"} THEN [app |-> a, game |-> g]
    ELSE LET first == IF /\ ~a.hasStarted /\ ~a.isShowingResults
                         /\ (e.metaKey \/ e.altKey \/ e.ctrlKey)
                      THEN startGame(a, g)
                      ELSE [app |-> a, game |-> g]
         IN  IF first.app.hasStarted
             THEN [first EXCEPT !.app.checkCommand = @ + 1]
             ELSE first

(***************************************************************************)
(* Inputs of the editor specifications.                                    *)
(***************************************************************************)
TextAlphabet == {"a", " ", NL}
Texts(n) == UNION {[1..k -> TextAlphabet] : k \in 0..n}

\* Selections that satisfy the data model: inside the text, not empty,
\* anchored at one end.
ValidSelections(t) ==
    {NullSelection} \cup
    {Sel(s, e, a) : <<s, e, a>> \in
        {x \in (0..Len(t)) \X (0..Len(t)) \X (0..Len(t)) :
            x[1] < x[2] /\ x[3] \in {x[1], x[2]}}}

ValidStates(n) ==
    UNION {{EditorState(t, c, sel) : c \in 0..Len(t), sel \in ValidSelections(t)} :
           t \in Texts(n)}

Keys == {"ArrowLeft", "ArrowRight", "Backspace", "Delete", "Home", "End",
         "Enter", "Escape", "Tab", "a", "e", "w", "d", "f", "b", "k", "u", "A"}
KeyEvents == {KeyEvent(k, m, a, c, sh) :
                 k \in Keys, m \in BOOLEAN, a \in BOOLEAN, c \in BOOLEAN, sh \in BOOLEAN}

\* Key events whose inserted character, if any, is of the text alphabet.
EditorKeyEvents ==
    {e \in KeyEvents : \A o \in OSes :
        KeyOperation(o, e) = "insertCharacter" => e.key \in TextAlphabet}

\* Arguments of setState: each field given or undefined; a selection object
\* with or without an anchor, also empty, reversed or past the text.
SetStateInputs ==
    LET textArgs ==
            {[hasText |-> FALSE, text |-> <<>>]} \cup
            {[hasText |-> TRUE, text |-> t] : t \in Texts(MaxEditorLen)}
        cursorArgs ==
            {[hasCursorPosition |-> FALSE, cursorPosition |-> 0]} \cup
            {[hasCursorPosition |-> TRUE, cursorPosition |-> c]
                : c \in (-1)..(MaxEditorLen + 1)}
        selectionArgs ==
            {[selectionKind |-> k, start |-> 0, end |-> 0, hasAnchor |-> FALSE,
              anchor |-> 0] : k \in {"undefined", "null"}} \cup
            {[selectionKind |-> "object", start |-> st, end |-> en,
              hasAnchor |-> FALSE, anchor |-> 0]
                : st \in 0..(MaxEditorLen + 1), en \in 0..(MaxEditorLen + 1)} \cup
            {[selectionKind |-> "object", start |-> st, end |-> en,
              hasAnchor |-> TRUE, anchor |-> en]
                : st \in 0..(MaxEditorLen + 1), en \in 0..(MaxEditorLen + 1)}
    IN  {[hasText |-> ta.hasText, text |-> ta.text,
          hasCursorPosition |-> ca.hasCursorPosition,
          cursorPosition |-> ca.cursorPosition,
          selectionKind |-> sa.selectionKind, start |-> sa.start, end |-> sa.end,
          hasAnchor |-> sa.hasAnchor, anchor |-> sa.anchor] :
            ta \in textArgs, ca \in cursorArgs, sa \in selectionArgs}

NoCall == [api |-> "none", event |-> NoEvent, op |-> "none", handled |-> FALSE, arg |-> 0]
\* What challenge, userResult and validation hold before they are first set.
NotYet == <<>>

(***************************************************************************)
(* Editor calls.  h is the history kept: "none", "last" (the call) or      *)
(* "full" (the call and the state before it).                              *)
(***************************************************************************)
Call(h, api, ev, op, hd, arg, s2) ==
    /\ pre' = IF h = "full" THEN Ed ELSE pre
    /\ last' = IF h = "none" THEN last
               ELSE [api |-> api, event |-> ev, op |-> op, handled |-> hd, arg |-> arg]
    /\ text' = s2.text
    /\ cursorPosition' = s2.cursorPosition
    /\ selection' = s2.selection
    /\ UNCHANGED <<os, challenge, commandType, userResult, validation, app, game>>

SetText(h, n) ==
    \E t \in Texts(n) : Call(h, "setText", NoEvent, "setText", TRUE, 0, setText(Ed, t))

SetState(h) ==
    \E st \in SetStateInputs :
        Call(h, "setState", NoEvent, "setState", TRUE, 0, setState(Ed, st))

MoveCursor(h, n) ==
    \E p \in (-1)..(n + 1) :
        Call(h, "moveCursor", NoEvent, "moveCursor", TRUE, p, moveCursor(Ed, p))

MoveByWord(h) ==
    \/ Call(h, "moveByWord", NoEvent, "moveByWord_left", TRUE, 0, moveByWord(Ed, "left"))
    \/ Call(h, "moveByWord", NoEvent, "moveByWord_right", TRUE, 0, moveByWord(Ed, "right"))

MoveToLineStart(h) ==
    Call(h, "moveToLineStart", NoEvent, "moveToLineStart", TRUE, 0, moveToLineStart(Ed))

MoveToLineEnd(h) ==
    Call(h, "moveToLineEnd", NoEvent, "moveToLineEnd", TRUE, 0, moveToLineEnd(Ed))

SelectByWord(h) ==
    \/ Call(h, "selectByWord", NoEvent, "selectByWord_left", TRUE, 0,
            selectByWord(Ed, "left"))
    \/ Call(h, "selectByWord", NoEvent, "selectByWord_right", TRUE, 0,
            selectByWord(Ed, "right"))

SelectToLineStart(h) ==
    Call(h, "selectToLineStart", NoEvent, "selectToLineStart", TRUE, 0,
         selectToLineStart(Ed))

SelectToLineEnd(h) ==
    Call(h, "selectToLineEnd", NoEvent, "selectToLineEnd", TRUE, 0, selectToLineEnd(Ed))

DeleteWord(h) ==
    Call(h, "deleteWord", NoEvent, "deleteWord", TRUE, 0, deleteWord(Ed))

DeleteToLineStart(h) ==
    Call(h, "deleteToLineStart", NoEvent, "deleteToLineStart", TRUE, 0,
         deleteToLineStart(Ed))

DeleteToLineEnd(h) ==
    Call(h, "deleteToLineEnd", NoEvent, "deleteToLineEnd", TRUE, 0, deleteToLineEnd(Ed))

DeleteWordForward(h) ==
    Call(h, "deleteWordForward", NoEvent, "deleteWordForward", TRUE, 0,
         deleteWordForward(Ed))

SelectAll(h) ==
    Call(h, "selectAll", NoEvent, "selectAll", TRUE, 0, selectAll(Ed))

\* A keydown event delivered to the editor: _handleKeyDown.  Texts longer
\* than n, and cursors more than 2 past n, are cut off.
KeyDown(h, events, n) ==
    \E e \in events :
        LET r == handleKeyDown(Ed, os, e)
        IN  /\ Len(r.state.text) <= n
            /\ r.state.cursorPosition <= n + 2
            /\ Call(h, "handleKeyDown", e, r.op, r.handled, 0, r.state)

\* setOS(os)
SetOS ==
    /\ \E o \in OSes : os' = o
    /\ UNCHANGED <<text, cursorPosition, selection, pre, last, challenge, commandType,
                   userResult, validation, phase, app, game>>

(***************************************************************************)
(* SpecOp: one editor call from any state that satisfies the data model,   *)
(* with the state before the call kept in pre.                             *)
(***************************************************************************)
OpInit ==
    /\ \E s \in ValidStates(MaxLen) :
          /\ text = s.text
          /\ cursorPosition = s.cursorPosition
          /\ selection = s.selection
          /\ pre = s
    /\ os \in OSes
    /\ last = NoCall
    /\ challenge = NotYet
    /\ commandType = "none"
    /\ userResult = NotYet
    /\ validation = NotYet
    /\ app = NewApp
    /\ game = NewGame(TimerModes.MEDIUM)
    /\ phase = "ready"

OpNext ==
    /\ phase = "ready"
    /\ phase' = "done"
    /\ \/ SetText("full", MaxLen)
       \/ MoveCursor("full", MaxLen)
       \/ MoveByWord("full")
       \/ MoveToLineStart("full")
       \/ MoveToLineEnd("full")
       \/ SelectByWord("full")
       \/ SelectToLineStart("full")
       \/ SelectToLineEnd("full")
       \/ DeleteWord("full")
       \/ DeleteToLineStart("full")
       \/ DeleteToLineEnd("full")
       \/ DeleteWordForward("full")
       \/ SelectAll("full")
       \/ KeyDown("full", KeyEvents, MaxLen + 1)

SpecOp == OpInit /\ [][OpNext]_vars

(***************************************************************************)
(* SpecEditor: the editor from its constructed state under any sequence of *)
(* calls and key events.                                                   *)
(***************************************************************************)
EditorInit ==
    /\ text = <<>>
    /\ cursorPosition = 0
    /\ selection = NullSelection
    /\ os \in OSes
    /\ pre = EditorState(<<>>, 0, NullSelection)
    /\ last = NoCall
    /\ challenge = NotYet
    /\ commandType = "none"
    /\ userResult = NotYet
    /\ validation = NotYet
    /\ app = NewApp
    /\ game = NewGame(TimerModes.MEDIUM)
    /\ phase = "editor"

EditorCalls ==
    \/ SetText("none", MaxEditorLen)
    \/ MoveCursor("none", MaxEditorLen)
    \/ MoveByWord("none")
    \/ MoveToLineStart("none")
    \/ MoveToLineEnd("none")
    \/ SelectByWord("none")
    \/ SelectToLineStart("none")
    \/ SelectToLineEnd("none")
    \/ DeleteWord("none")
    \/ DeleteToLineStart("none")
    \/ DeleteToLineEnd("none")
    \/ DeleteWordForward("none")
    \/ SelectAll("none")
    \/ KeyDown("none", EditorKeyEvents, MaxEditorLen)

EditorNext ==
    \/ (EditorCalls /\ UNCHANGED phase)
    \/ (SetState("none") /\ UNCHANGED phase)
    \/ SetOS

SpecEditor == EditorInit /\ [][EditorNext]_vars

\* SpecEditorCalls: the editor from its constructed state under any sequence
\* of calls and key events other than setState, on texts of up to
\* MaxCallsLen characters.
EditorCallsNext ==
    \/ SetOS
    \/ /\ UNCHANGED phase
       /\ \/ SetText("none", MaxCallsLen)
          \/ MoveCursor("none", MaxCallsLen)
          \/ MoveByWord("none")
          \/ MoveToLineStart("none")
          \/ MoveToLineEnd("none")
          \/ SelectByWord("none")
          \/ SelectToLineStart("none")
          \/ SelectToLineEnd("none")
          \/ DeleteWord("none")
          \/ DeleteToLineStart("none")
          \/ DeleteToLineEnd("none")
          \/ DeleteWordForward("none")
          \/ SelectAll("none")
          \/ KeyDown("none", EditorKeyEvents, MaxCallsLen)

SpecEditorCalls == EditorInit /\ [][EditorCallsNext]_vars

(***************************************************************************)
(* SpecSelect: from a state without selection (kept in pre), any sequence  *)
(* of select operations.  phase becomes "collapsed" once a selection has   *)
(* collapsed back to null.                                                 *)
(***************************************************************************)
ShiftArrowEvents ==
    {KeyEvent(k, FALSE, FALSE, FALSE, TRUE) : k \in {"ArrowLeft", "ArrowRight"}}

SelectInit ==
    /\ \E s \in ValidStates(MaxLen) :
          /\ ~s.selection.active
          /\ text = s.text
          /\ cursorPosition = s.cursorPosition
          /\ selection = s.selection
          /\ pre = s
    /\ os \in OSes
    /\ last = NoCall
    /\ challenge = NotYet
    /\ commandType = "none"
    /\ userResult = NotYet
    /\ validation = NotYet
    /\ app = NewApp
    /\ game = NewGame(TimerModes.MEDIUM)
    /\ phase = "select"

SelectNext ==
    /\ \/ SelectByWord("last")
       \/ SelectToLineStart("last")
       \/ SelectToLineEnd("last")
       \/ KeyDown("last", ShiftArrowEvents, MaxLen)
    /\ phase' = IF selection.active /\ ~selection'.active THEN "collapsed" ELSE phase

SpecSelect == SelectInit /\ [][SelectNext]_vars

(***************************************************************************)
(* SpecChallenge: a challenge is generated for a command, a text and the   *)
(* platform and set up in the editor; the player presses the chord the     *)
(* challenge names, or the command's editor call is made directly; the     *)
(* result is validated; a wrong attempt sets the challenge up again.       *)
(***************************************************************************)
\* The custom texts of the documented scenarios that are not in TEXT_POOL.
ScenarioTexts == {<<"a", "b", " ", "c", "d">>}

CustomTexts == Texts(MaxChallengeLen) \cup ScenarioTexts

\* setupChallengeInTerminal(challenge)
setupChallengeInTerminal(s, ch) ==
    setState(s, [hasText |-> TRUE, text |-> ch.text,
                 hasCursorPosition |-> TRUE, cursorPosition |-> ch.cursorPosition,
                 selectionKind |-> "null", start |-> 0, end |-> 0,
                 hasAnchor |-> FALSE, anchor |-> 0])

\* The argument checkCommand builds from terminal.getState().
TerminalResult(s) ==
    LET terminalState == getState(s)
    IN  UserResult(terminalState.text, terminalState.cursorPosition,
                   IF terminalState.selection.active
                   THEN UserSelection(terminalState.selection.start,
                                      terminalState.selection.end)
                   ELSE NoUserSelection)

ChallengeInit ==
    /\ text = <<>>
    /\ cursorPosition = 0
    /\ selection = NullSelection
    /\ os \in OSes
    /\ pre = EditorState(<<>>, 0, NullSelection)
    /\ last = NoCall
    /\ challenge = NotYet
    /\ commandType = "none"
    /\ userResult = NotYet
    /\ validation = NotYet
    /\ app = NewApp
    /\ game = NewGame(TimerModes.MEDIUM)
    /\ phase = "idle"

\* generateChallenge(commandType, customText, null, os), then
\* setupChallengeInTerminal.
LoadChallenge ==
    /\ phase = "idle"
    /\ \E id \in CommandIds, customText \in CustomTexts :
          \E ch \in generateChallenge(id, customText, os) :
             /\ ch.kind = "challenge"
             /\ challenge' = ch
             /\ commandType' = id
             /\ LET s2 == setupChallengeInTerminal(Ed, ch)
                IN  /\ text' = s2.text
                    /\ cursorPosition' = s2.cursorPosition
                    /\ selection' = s2.selection
    /\ phase' = "loaded"
    /\ UNCHANGED <<os, pre, last, userResult, validation, app, game>>

\* The key event of challenge.command.keyCode reaches _handleKeyDown.
PressChord ==
    /\ phase = "loaded"
    /\ LET e == challenge.command.keyCode
           r == handleKeyDown(Ed, os, e)
       IN  Call("full", "handleKeyDown", e, r.op, r.handled, 0, r.state)
    /\ phase' = "pressed"

\* The editor call of the challenge's command is made directly.
ApplyCommandOperation ==
    /\ phase = "loaded"
    /\ LET op == CommandOperation(commandType)
       IN  Call("full", "command", NoEvent, op, TRUE, 0, ApplyOperation(Ed, op, ""))
    /\ phase' = "applied"

\* checkCommand(): validateChallenge on the editor's state.
CheckCommand ==
    /\ phase \in {"pressed", "applied"}
    /\ userResult' = TerminalResult(Ed)
    /\ validation' = validateChallenge(challenge, userResult')
    /\ phase' = IF phase = "pressed" THEN "checked" ELSE "checkedApplied"
    /\ UNCHANGED <<text, cursorPosition, selection, os, pre, last, challenge, commandType, app, game>>

\* The retry of checkCommand: after a failed attempt that changed the state
\* the challenge is set up again.
RetryChallenge ==
    /\ phase \in {"checked", "checkedApplied"}
    /\ ~validation.success
    /\ \/ text # challenge.text
       \/ cursorPosition # challenge.cursorPosition
       \/ selection.active
    /\ LET s2 == setupChallengeInTerminal(Ed, challenge)
       IN  /\ text' = s2.text
           /\ cursorPosition' = s2.cursorPosition
           /\ selection' = s2.selection
    /\ phase' = "loaded"
    /\ UNCHANGED <<os, pre, last, challenge, commandType, userResult, validation, app, game>>

ChallengeNext ==
    \/ LoadChallenge
    \/ PressChord
    \/ ApplyCommandOperation
    \/ CheckCommand
    \/ RetryChallenge

SpecChallenge == ChallengeInit /\ [][ChallengeNext]_vars

(***************************************************************************)
(* SpecValidate: validateChallenge on any expected result and any user     *)
(* result over small texts.                                                *)
(***************************************************************************)
ValidateResults ==
    LET selections ==
            {NoUserSelection} \cup
            {UserSelection(st, en) : st \in 0..MaxValidateLen, en \in 0..MaxValidateLen}
    IN  {UserResult(t, c, sel) :
            t \in Texts(MaxValidateLen), c \in 0..MaxValidateLen, sel \in selections}

ValidateInit ==
    /\ text = <<>>
    /\ cursorPosition = 0
    /\ selection = NullSelection
    /\ os \in OSes
    /\ pre = EditorState(<<>>, 0, NullSelection)
    /\ last = NoCall
    /\ \E expected \in ValidateResults :
          challenge = [NullChallenge EXCEPT !.kind = "challenge",
                                            !.expectedResult = expected]
    /\ commandType = "none"
    /\ userResult = NotYet
    /\ validation = NotYet
    /\ app = NewApp
    /\ game = NewGame(TimerModes.MEDIUM)
    /\ phase = "validate"

Validate ==
    /\ phase = "validate"
    /\ \E user \in ValidateResults :
          /\ userResult' = user
          /\ validation' = validateChallenge(challenge, user)
    /\ phase' = "validated"
    /\ UNCHANGED <<text, cursorPosition, selection, os, pre, last, challenge, commandType, app, game>>

SpecValidate == ValidateInit /\ [][Validate]_vars

(***************************************************************************)
(* SpecGenerate: one call of the exported functions of challenges.js, or   *)
(* of a generator on its own, with any command id (also one the tables do  *)
(* not have), any small text and any os (also one no command names).  The  *)
(* call and its arguments are kept in last, the challenge returned in      *)
(* challenge, the command returned by a lookup in last.arg.command, and    *)
(* whether the call ended in a throw in last.arg.threw: only                *)
(* generateChallenge has a throw statement.                                 *)
(***************************************************************************)
CommandIdArgs == CommandIds \cup {"NOT_A_COMMAND"}
OSArgs == OSes \cup {"android", "name"}

GenerateInit ==
    /\ text = <<>>
    /\ cursorPosition = 0
    /\ selection = NullSelection
    /\ os \in OSes
    /\ pre = EditorState(<<>>, 0, NullSelection)
    /\ last = NoCall
    /\ challenge = NotYet
    /\ commandType = "none"
    /\ userResult = NotYet
    /\ validation = NotYet
    /\ app = NewApp
    /\ game = NewGame(TimerModes.MEDIUM)
    /\ phase = "idle"

Returned(api, id, t, osv, command, ch) ==
    /\ phase = "idle"
    /\ phase' = "returned"
    /\ last' = [api |-> api, event |-> NoEvent, op |-> "none", handled |-> TRUE,
                arg |-> [commandType |-> id, text |-> t, os |-> osv,
                         command |-> command,
                         threw |-> api = "generateChallenge" /\ ch.kind = "throw"]]
    /\ challenge' = ch
    /\ commandType' = id
    /\ UNCHANGED <<text, cursorPosition, selection, os, pre, userResult, validation, app, game>>

\* generateChallenge(commandType, customText): os is left to its default,
\* the current OS.
GenerateChallenge ==
    /\ phase = "idle"
    /\ \E id \in CommandIdArgs, customText \in Texts(MaxGenerateLen) :
           \E ch \in generateChallenge(id, customText, os) :
               Returned("generateChallenge", id, customText, os, NullCommand, ch)

\* The enabled-categories objects generateChallenge is given.
EnabledCategories ==
    [{"navigation", "selection", "deletion"} -> {"true", "false", Undefined}]

\* The custom texts generateChallenge is given with them: none, or a text
\* of two words.
CategoryTexts ==
    {<<>>} \cup {t \in Texts(MaxGenerateLen) : Len(findWordBoundaries(t)) >= 2}

\* generateChallenge(null, customText, enabledCategories): the command is
\* drawn from availableCommands.
GenerateChallengeFromCategories ==
    /\ phase = "idle"
    /\ phase' = "returned"
    /\ \E enabledCategories \in EnabledCategories, customText \in CategoryTexts :
          LET commands == availableCommands(enabledCategories)
          IN  \E selectedCommand \in getRandomItem(commands) :
                \E ch \in generateChallenge(selectedCommand, customText, os) :
                   /\ last' = [api |-> "generateChallengeFromCategories",
                               event |-> NoEvent, op |-> "none", handled |-> TRUE,
                               arg |-> [commandType |-> selectedCommand,
                                        text |-> customText, os |-> os,
                                        command |-> NullCommand,
                                        threw |-> ch.kind = "throw",
                                        enabledCategories |-> enabledCategories,
                                        availableCommands |-> commands]]
                   /\ challenge' = ch
                   /\ commandType' = selectedCommand
    /\ UNCHANGED <<text, cursorPosition, selection, os, pre, userResult, validation, app, game>>

\* CHALLENGE_GENERATORS[commandType](text): os is left to its default.
RunGenerator ==
    /\ phase = "idle"
    /\ \E id \in GeneratorIds, t \in Texts(MaxGenerateLen) :
           \E ch \in CHALLENGE_GENERATORS(id, t, os) :
               Returned("generator", id, t, os, NullCommand, ch)

\* getCommandForOS(commandType, os)
GetCommandForOS ==
    /\ phase = "idle"
    /\ \E id \in CommandIdArgs, osv \in OSArgs :
           Returned("getCommandForOS", id, <<>>, osv, getCommandForOS(id, osv), challenge)

\* getCommand(commandType, os)
GetCommand ==
    /\ phase = "idle"
    /\ \E id \in CommandIdArgs, osv \in OSArgs :
           Returned("getCommand", id, <<>>, osv, getCommand(id, osv), challenge)

GenerateNext ==
    \/ GenerateChallenge
    \/ GenerateChallengeFromCategories
    \/ RunGenerator
    \/ GetCommandForOS
    \/ GetCommand

SpecGenerate == GenerateInit /\ [][GenerateNext]_vars

(***************************************************************************)
(* SpecBoundary: one call of the word boundary finders, the editor's and    *)
(* the generators', or of the editor's line boundary finders, on any small  *)
(* text, position and direction.  The arguments and the results are kept in *)
(* last, with the result of a second call made from the first result.       *)
(***************************************************************************)
BoundaryInit ==
    /\ text = <<>>
    /\ cursorPosition = 0
    /\ selection = NullSelection
    /\ os \in OSes
    /\ pre = EditorState(<<>>, 0, NullSelection)
    /\ last = NoCall
    /\ challenge = NotYet
    /\ commandType = "none"
    /\ userResult = NotYet
    /\ validation = NotYet
    /\ app = NewApp
    /\ game = NewGame(TimerModes.MEDIUM)
    /\ phase = "idle"

\* _findWordBoundary(position, direction) on an editor holding the text, and
\* findWordBoundaryLeft / findWordBoundaryRight(text, position).
FindWordBoundary ==
    /\ phase = "idle"
    /\ phase' = "returned"
    /\ \E t \in Texts(MaxBoundaryLen), direction \in {"left", "right"} :
          \E position \in 0..Len(t) :
             last' = [api |-> "findWordBoundary", event |-> NoEvent, op |-> direction,
                      handled |-> TRUE,
                      arg |-> [text |-> t, position |-> position,
                               editor |-> findWordBoundary(t, position, direction),
                               generator |-> IF direction = "left"
                                             THEN findWordBoundaryLeft(t, position)
                                             ELSE findWordBoundaryRight(t, position),
                               back |-> findWordBoundary(
                                            t, findWordBoundary(t, position, direction),
                                            IF direction = "left" THEN "right"
                                            ELSE "left"),
                               repeated |-> RepeatMoveByWord(
                                                EditorState(t, position, NullSelection),
                                                direction, Len(t)),
                               stays |-> RepeatMoveByWord(
                                             EditorState(t, position, NullSelection),
                                             direction, Len(t) + 1)]]
    /\ UNCHANGED <<text, cursorPosition, selection, os, pre, challenge, commandType,
                   userResult, validation, app, game>>

\* _findLineStart(position) or _findLineEnd(position) on an editor holding
\* the text, and the same call again from its result.
FindLineBoundary ==
    /\ phase = "idle"
    /\ phase' = "returned"
    /\ \E t \in Texts(MaxBoundaryLen), direction \in {"start", "end"} :
          \E position \in 0..Len(t) :
             LET found == IF direction = "start" THEN findLineStart(t, position)
                          ELSE findLineEnd(t, position)
             IN  last' = [api |-> "findLineBoundary", event |-> NoEvent,
                          op |-> direction, handled |-> TRUE,
                          arg |-> [text |-> t, position |-> position,
                                   editor |-> found,
                                   again |-> IF direction = "start"
                                             THEN findLineStart(t, found)
                                             ELSE findLineEnd(t, found)]]
    /\ UNCHANGED <<text, cursorPosition, selection, os, pre, challenge, commandType,
                   userResult, validation, app, game>>

SpecBoundary == BoundaryInit /\ [][FindWordBoundary \/ FindLineBoundary]_vars

(***************************************************************************)
(* SpecGame: the page after init().  A first challenge is displayed; the   *)
(* player presses keys in the terminal; the timers set by the handlers     *)
(* (checkCommand after 10 ms, the retry set-up after 300 ms, the next      *)
(* challenge after 500 ms, the countdown every second) fire in any order.  *)
(* The command of a challenge is any command and its text a short text of  *)
(* two words or more on one line, in place of a text of the pool.          *)
(***************************************************************************)
GameTexts ==
    {t \in Texts(MaxGameLen) :
        /\ Len(findWordBoundaries(t)) >= 2
        /\ \A i \in 1..Len(t) : t[i] # NL}

\* What generateChallenge(null, null, enabledCategories, os) can return, with
\* the command type drawn.
GameChallenges ==
    [o \in OSes |->
        UNION {{[commandType |-> id, challenge |-> ch]
                   : ch \in {c \in generateChallenge(id, t, o) : c.text \in GameTexts}}
               : id \in CommandIds, t \in GameTexts}]

\* The key presses of a player on a challenge: its chord, a character
\* without modifiers, Escape, and a modifier key on its own.
GameKeyEvents(ch) ==
    {ch.command.keyCode,
     KeyEvent("a", FALSE, FALSE, FALSE, FALSE),
     KeyEvent("Escape", FALSE, FALSE, FALSE, FALSE),
     KeyEvent("Control", FALSE, FALSE, TRUE, FALSE)}

GameInit ==
    /\ text = <<>>
    /\ cursorPosition = 0
    /\ selection = NullSelection
    /\ os \in OSes
    /\ pre = EditorState(<<>>, 0, NullSelection)
    /\ last = NoCall
    /\ challenge = NotYet
    /\ commandType = "none"
    /\ userResult = NotYet
    /\ validation = 0
    /\ phase = "idle"
    /\ app = NewApp
    /\ game \in {NewGame(d) : d \in 1..MaxDuration}

\* displayChallenge(challenge) of a challenge just generated:
\* app.currentChallenge is set and the terminal set up.  last keeps the
\* call that displayed the challenge; validation counts the calls of
\* handleCommandAttempt(true) made for the challenge on display.
DisplayChallenge(api, e, c) ==
    /\ validation' = 0
    /\ last' = [api |-> api, event |-> e, op |-> "none", handled |-> FALSE,
                arg |-> [hasStarted |-> app.hasStarted,
                         isShowingResults |-> app.isShowingResults]]
    /\ challenge' = c.challenge
    /\ commandType' = c.commandType
    /\ LET s2 == setupChallengeInTerminal(Ed, c.challenge)
       IN  /\ text' = s2.text
           /\ cursorPosition' = s2.cursorPosition
           /\ selection' = s2.selection

\* init(): loadFirstChallenge()
LoadFirstChallenge ==
    /\ phase = "idle"
    /\ phase' = "ready"
    /\ \E c \in GameChallenges[os] : DisplayChallenge("loadFirstChallenge", NoEvent, c)
    /\ UNCHANGED <<os, pre, userResult, app, game>>

\* A keydown event in the terminal: the editor's listener, then
\* handleTerminalKeydown and, for an event the editor did not handle (it
\* stops the propagation of the others), handleGlobalKeydown on the
\* document, which resets the game on Escape and on any key that dismisses
\* the results: resetGame() ends in loadFirstChallenge().
TerminalKeydown ==
    /\ phase = "ready"
    /\ app.checkCommand + app.loadNextChallenge + app.setupChallengeInTerminal
          + game.commandsAttempted < MaxAttempts
    /\ \E e \in GameKeyEvents(challenge) :
          LET r == handleKeyDown(Ed, os, e)
              m == handleTerminalKeydown(app, game, e)
              resets == /\ ~r.handled
                        /\ \/ e.key = "Escape"
                           \/ /\ m.app.isShowingResults
                              /\ e.key \notin {"Shift", "Control", "Alt", "Meta", "Tab"}
          IN  /\ Len(r.state.text) <= MaxGameLen + 1
              /\ IF resets
                 THEN /\ app' = [m.app EXCEPT !.hasStarted = FALSE,
                                              !.isShowingResults = FALSE]
                      /\ game' = reset(m.game)
                      /\ \E c \in GameChallenges[os] : DisplayChallenge("resetGame", e, c)
                 ELSE /\ last' = [api |-> "keydown", event |-> e, op |-> r.op,
                                  handled |-> r.handled,
                                  arg |-> [hasStarted |-> app.hasStarted,
                                           isShowingResults |-> app.isShowingResults]]
                      /\ app' = m.app
                      /\ game' = m.game
                      /\ text' = r.state.text
                      /\ cursorPosition' = r.state.cursorPosition
                      /\ selection' = r.state.selection
                      /\ UNCHANGED <<challenge, commandType, validation>>
    /\ UNCHANGED <<os, pre, userResult, phase>>

\* The timer of handleTerminalKeydown fires: checkCommand().
CheckCommandTimer ==
    /\ phase = "ready"
    /\ app.checkCommand > 0
    /\ LET result == validateChallenge(challenge, TerminalResult(Ed))
           stateChanged == \/ text # challenge.text
                           \/ cursorPosition # challenge.cursorPosition
                           \/ selection.active
           fired == [app EXCEPT !.checkCommand = @ - 1]
       IN  IF result.success
           THEN /\ game' = handleCommandAttempt(game, TRUE)
                /\ app' = [fired EXCEPT !.loadNextChallenge = @ + 1]
                /\ validation' = validation + 1
           ELSE IF stateChanged
           THEN /\ game' = handleCommandAttempt(game, FALSE)
                /\ app' = [fired EXCEPT !.setupChallengeInTerminal = @ + 1]
                /\ validation' = validation
           ELSE /\ game' = game
                /\ app' = fired
                /\ validation' = validation
    /\ UNCHANGED <<text, cursorPosition, selection, os, pre, last, challenge,
                   commandType, userResult, phase>>

\* The timer of a correct attempt fires: loadNextChallenge().
LoadNextChallengeTimer ==
    /\ phase = "ready"
    /\ app.loadNextChallenge > 0
    /\ app' = [app EXCEPT !.loadNextChallenge = @ - 1]
    /\ \E c \in GameChallenges[os] : DisplayChallenge("loadNextChallenge", NoEvent, c)
    /\ UNCHANGED <<os, pre, userResult, phase, game>>

\* The timer of a wrong attempt fires: setupChallengeInTerminal(currentChallenge).
SetupChallengeTimer ==
    /\ phase = "ready"
    /\ app.setupChallengeInTerminal > 0
    /\ app' = [app EXCEPT !.setupChallengeInTerminal = @ - 1]
    /\ LET s2 == setupChallengeInTerminal(Ed, challenge)
       IN  /\ text' = s2.text
           /\ cursorPosition' = s2.cursorPosition
           /\ selection' = s2.selection
    /\ UNCHANGED <<os, pre, last, challenge, commandType, userResult, validation,
                   phase, game>>

\* The countdown interval fires: Game.tick(); the gameEnd event it emits at
\* zero runs handleGameEnd.
Tick ==
    /\ phase = "ready"
    /\ game.intervals > 0
    /\ game' = tick(game)
    /\ app' = IF game.state # "finished" /\ game'.state = "finished"
              THEN handleGameEnd(app) ELSE app
    /\ UNCHANGED <<text, cursorPosition, selection, os, pre, last, challenge,
                   commandType, userResult, validation, phase>>

GameNext ==
    \/ LoadFirstChallenge
    \/ TerminalKeydown
    \/ CheckCommandTimer
    \/ LoadNextChallengeTimer
    \/ SetupChallengeTimer
    \/ Tick

SpecGame == GameInit /\ [][GameNext]_vars

(***************************************************************************)
(* SpecGameApi: a Game under any sequence of calls of its methods and      *)
(* firings of its countdown interval.  pre is the Game before the last     *)
(* call; last is the call, the events it emitted, and the history: the     *)
(* ticks executed while ACTIVE since the game started, the gameEnd events  *)
(* since the constructor or the last reset, and whether the game has run   *)
(* since its start with no pause, end, reset or destroy call.              *)
(***************************************************************************)
DurationArgs ==
    {[typeof |-> "number", value |-> v] : v \in 0..MaxDuration}
        \cup {[typeof |-> "undefined", value |-> 0]}

GameApiInit ==
    /\ text = <<>>
    /\ cursorPosition = 0
    /\ selection = NullSelection
    /\ os \in OSes
    /\ challenge = NotYet
    /\ commandType = "none"
    /\ userResult = NotYet
    /\ validation = NotYet
    /\ app = NewApp
    /\ phase = "ready"
    /\ game \in {NewGame(d) : d \in 1..MaxDuration}
    /\ pre = game
    /\ last = [api |-> "constructor", arg |-> FALSE, emitted |-> <<>>,
               ticks |-> 0, gameEnds |-> 0, undisturbed |-> FALSE]

GameCall(api, arg, g, emitted) ==
    LET starts == game.state = "idle" /\ g.state = "active"
        ends   == Cardinality({i \in 1..Len(emitted) : emitted[i] = "gameEnd"})
    IN  /\ game' = g
        /\ pre' = game
        /\ last' = [api |-> api, arg |-> arg, emitted |-> emitted,
                    ticks |-> IF starts \/ api = "reset" THEN 0
                              ELSE IF api \in {"tick", "interval"} /\ game.state = "active"
                              THEN last.ticks + 1
                              ELSE last.ticks,
                    gameEnds |-> IF api = "reset" THEN 0 ELSE last.gameEnds + ends,
                    undisturbed |-> IF starts THEN TRUE
                                    ELSE IF api \in {"pause", "end", "reset", "destroy"}
                                    THEN FALSE
                                    ELSE last.undisturbed]
        /\ UNCHANGED <<text, cursorPosition, selection, os, challenge, commandType,
                       userResult, validation, app, phase>>

\* game.start()
Start ==
    /\ phase = "ready"
    /\ GameCall("start", FALSE, start(game), emits(game, "start", FALSE))

\* The countdown interval fires: this.tick().
IntervalTick ==
    /\ phase = "ready"
    /\ game.intervals > 0
    /\ GameCall("interval", FALSE, tick(game), emits(game, "tick", FALSE))

\* game.tick()
CallTick ==
    /\ phase = "ready"
    /\ GameCall("tick", FALSE, tick(game), emits(game, "tick", FALSE))

\* game.end()
End ==
    /\ phase = "ready"
    /\ GameCall("end", FALSE, end(game), emits(game, "end", FALSE))

\* game.handleCommandAttempt(success)
HandleCommandAttempt ==
    /\ phase = "ready"
    /\ game.commandsAttempted < MaxAttempts
    /\ \E success \in BOOLEAN :
          GameCall("handleCommandAttempt", success, handleCommandAttempt(game, success),
                   emits(game, "handleCommandAttempt", success))

\* game.setDuration(seconds)
SetDuration ==
    /\ phase = "ready"
    /\ \E seconds \in DurationArgs :
          GameCall("setDuration", seconds, setDuration(game, seconds), <<>>)

\* game.reset()
Reset ==
    /\ phase = "ready"
    /\ GameCall("reset", FALSE, reset(game), <<>>)

\* game.pause()
Pause ==
    /\ phase = "ready"
    /\ GameCall("pause", FALSE, pause(game), <<>>)

\* game.resume()
Resume ==
    /\ phase = "ready"
    /\ GameCall("resume", FALSE, resume(game), <<>>)

\* game.destroy()
Destroy ==
    /\ phase = "ready"
    /\ GameCall("destroy", FALSE, destroy(game), <<>>)

GameApiNext ==
    \/ Start
    \/ IntervalTick
    \/ CallTick
    \/ End
    \/ HandleCommandAttempt
    \/ SetDuration
    \/ Reset
    \/ Pause
    \/ Resume
    \/ Destroy

SpecGameApi == GameApiInit /\ [][GameApiNext]_vars

\* The interval of a running game keeps firing.
SpecGameApiFair == SpecGameApi /\ WF_vars(IntervalTick)

(***************************************************************************)
(* Claims about the editor.                                                *)
(***************************************************************************)
SelectOps == {"selectByWord_left", "selectByWord_right", "selectToLineStart",
              "selectToLineEnd", "extendSelection_left", "extendSelection_right"}
DeleteOps == {"deleteCharacter_backward", "deleteCharacter_forward", "deleteWord",
              "deleteWordForward", "deleteToLineStart", "deleteToLineEnd"}
InsertOps == {"insertCharacter", "insertNewline"}

\* C4: after any sequence of editor operations, 0 <= cursorPosition <= text.length.
C4_CursorInRange == 0 <= cursorPosition /\ cursorPosition <= Len(text)

\* C5: after any sequence of editor operations, the selection is null or
\* satisfies 0 <= start < end <= text.length.
C5_SelectionWellFormed ==
    selection.active =>
        /\ 0 <= selection.start
        /\ selection.start < selection.end
        /\ selection.end <= Len(text)

\* C39: in every state reached from the constructed editor through calls and
\* key events other than setState, an active selection has the cursor at
\* one of its ends and the anchor at the other: start = min(anchor, cursor)
\* and end = max(anchor, cursor).
C39_SelectionFollowsCursor ==
    selection.active =>
        /\ selection.start = Min(selection.anchor, cursorPosition)
        /\ selection.end = Max(selection.anchor, cursorPosition)
        /\ cursorPosition \in {selection.start, selection.end}
        /\ selection.anchor \in {selection.start, selection.end}

\* Reached: a selection of a text of two characters made towards the left,
\* the cursor at its start and the anchor at its end.
C39_Witness ==
    /\ selection.active
    /\ Len(text) = 2
    /\ cursorPosition = 0
    /\ selection.start = 0
    /\ selection.anchor = 2
    /\ selection.end = 2

\* C6: after a select operation from any state, a cursor equal to the
\* selection anchor means the selection is null (and a selection that is kept
\* has its anchor away from the cursor).
C6_SelectionCollapse ==
    (phase = "done" /\ last.op \in SelectOps) =>
        LET anchor == IF pre.selection.active THEN pre.selection.anchor
                      ELSE pre.cursorPosition
        IN  /\ cursorPosition = anchor => ~selection.active
            /\ selection.active => selection.anchor # cursorPosition

\* Reached: an active selection collapsed by a select operation that brought
\* the cursor back to the anchor.
C6_Witness ==
    /\ phase = "done"
    /\ last.op \in SelectOps
    /\ pre.selection.active
    /\ pre.cursorPosition # pre.selection.anchor
    /\ cursorPosition = pre.selection.anchor
    /\ ~selection.active

\* C7: in a sequence of select operations started without selection at
\* cursor c, the selection always equals normalize(c, cursor).
C7_AnchorStays ==
    LET c == pre.cursorPosition
    IN  selection = IF cursorPosition = c THEN NullSelection
                    ELSE Sel(Min(c, cursorPosition), Max(c, cursorPosition), c)

\* Reached: a selection extended again, to the left of c, after a collapse.
C7_Witness ==
    /\ phase = "collapsed"
    /\ selection.active
    /\ selection.anchor = pre.cursorPosition
    /\ cursorPosition < pre.cursorPosition

\* C8: with an active selection, every delete operation and a character
\* insertion removes exactly text[start:end] and puts the cursor at start
\* (the insertion then inserts there); after every delete operation the
\* selection is null.
C8_DeleteSelectionFirst ==
    (phase = "done" /\ last.op \in DeleteOps \cup InsertOps) =>
        LET st     == pre.selection.start
            en     == pre.selection.end
            before == SubSeq(pre.text, 1, st)
            after  == SubSeq(pre.text, en + 1, Len(pre.text))
            char   == IF last.op = "insertNewline" THEN NL ELSE last.event.key
        IN  /\ (pre.selection.active /\ last.op \in DeleteOps) =>
                  (text = before \o after /\ cursorPosition = st)
            /\ (pre.selection.active /\ last.op \in InsertOps) =>
                  (text = before \o <<char>> \o after /\ cursorPosition = st + 1)
            /\ last.op \in DeleteOps => ~selection.active

\* Reached: a word deletion that removed the selection, not the word before
\* the cursor.
C8_Witness ==
    /\ phase = "done"
    /\ last.op = "deleteWord"
    /\ pre.selection.active
    /\ pre.cursorPosition # pre.selection.start
    /\ cursorPosition = pre.selection.start
    /\ Len(text) = Len(pre.text) - (pre.selection.end - pre.selection.start)
    /\ text # deleteWord([pre EXCEPT !.selection = NullSelection]).text

\* C10: a key event the dispatcher does not handle leaves text, cursor and
\* selection unchanged; Ctrl+E, Ctrl+F, Ctrl+B and Ctrl+D on windows, and
\* Escape and Tab on every OS, are not handled.
C10_UnhandledPassThrough ==
    (phase = "done" /\ last.api = "handleKeyDown") =>
        /\ ~last.handled => Ed = pre
        /\ (os = "windows" /\ last.event.ctrlKey
              /\ last.event.key \in {"e", "f", "b", "d"}) => ~last.handled
        /\ last.event.key \in {"Escape", "Tab"} => ~last.handled

\* Reached: Ctrl+E on windows with a selection active.
C10_Witness ==
    /\ phase = "done"
    /\ last.api = "handleKeyDown"
    /\ os = "windows"
    /\ last.event = KeyEvent("e", FALSE, FALSE, TRUE, FALSE)
    /\ ~last.handled
    /\ selection.active
    /\ cursorPosition < Len(text)

(***************************************************************************)
(* Claims about the command table, the generators and the validator.       *)
(***************************************************************************)
\* C1: for every command and platform, pressing the chord of a generated
\* challenge on its start state gives a state validateChallenge accepts.
C1_ChordSolvesChallenge ==
    (phase = "checked" /\ last.api = "handleKeyDown") => validation.success

\* C2: the editor call a command maps to, made on the start state of a
\* generated challenge, yields exactly the expected text, cursor and
\* selection range (no selection where none is expected; where one is
\* expected, a null selection counts as the empty range at the cursor).
C2_OperationYieldsExpected ==
    (phase = "applied") =>
        LET expected == challenge.expectedResult
            actual   == IF selection.active THEN <<selection.start, selection.end>>
                        ELSE <<cursorPosition, cursorPosition>>
        IN  /\ text = expected.text
            /\ cursorPosition = expected.cursorPosition
            /\ IF expected.selection.present
               THEN actual = <<expected.selection.start, expected.selection.end>>
               ELSE ~selection.active

\* C3: validateChallenge succeeds exactly when the text and the cursor equal
\* the expected ones and the expected selection is absent or equals the
\* actual range, an absent actual selection counting as [cursor, cursor].
C3_ValidateExactly ==
    (phase = "validated") =>
        LET expected == challenge.expectedResult
            actual   == IF userResult.selection.present
                        THEN <<userResult.selection.start, userResult.selection.end>>
                        ELSE <<userResult.cursorPosition, userResult.cursorPosition>>
        IN  validation.success <=>
               /\ userResult.text = expected.text
               /\ userResult.cursorPosition = expected.cursorPosition
               /\ \/ ~expected.selection.present
                  \/ actual = <<expected.selection.start, expected.selection.end>>

\* Reached: a success with no selection expected and an actual selection.
C3_Witness ==
    /\ phase = "validated"
    /\ validation.success
    /\ ~challenge.expectedResult.selection.present
    /\ userResult.selection.present
    /\ userResult.selection.start < userResult.selection.end

\* C9: on every platform a key event that equals the chord of a command of
\* the table runs that command's operation.
C9_ChordRunsItsCommand ==
    (phase = "done" /\ last.api = "handleKeyDown") =>
        \A id \in CommandIds :
            last.event = COMMANDS[id][os] => last.op = CommandOperation(id)

\* C32: within one OS, two commands of the table have the same chord only if
\* they have the same editor operation, so the chord pressed determines one
\* operation.
C32_ChordDeterminesOperation ==
    (phase = "done" /\ last.api = "handleKeyDown") =>
        \A a \in CommandIds, b \in CommandIds :
            (COMMANDS[a][os] = last.event /\ COMMANDS[b][os] = last.event) =>
                CommandOperation(a) = CommandOperation(b)

\* C11: on every OS a printable character key pressed with no modifier
\* inserts the character at the cursor after removing an active selection
\* (collapsing to its start): the cursor ends one past the insertion point,
\* the text is one longer than after the removal, the selection is null.
C11_PlainKeyInserts ==
    (/\ phase = "done"
     /\ last.api = "handleKeyDown"
     /\ Len(last.event.key) = 1
     /\ ~last.event.metaKey /\ ~last.event.altKey
     /\ ~last.event.ctrlKey /\ ~last.event.shiftKey) =>
        LET at     == IF pre.selection.active THEN pre.selection.start
                      ELSE pre.cursorPosition
            upto   == IF pre.selection.active THEN pre.selection.end
                      ELSE pre.cursorPosition
            before == SubSeq(pre.text, 1, at)
            after  == SubSeq(pre.text, upto + 1, Len(pre.text))
        IN  /\ last.handled
            /\ text = before \o <<last.event.key>> \o after
            /\ Len(text) = Len(before \o after) + 1
            /\ cursorPosition = at + 1
            /\ ~selection.active

\* Reached: a plain key on linux replacing a selection whose start is not
\* the cursor.
C11_Witness ==
    /\ phase = "done"
    /\ last.api = "handleKeyDown"
    /\ os = "linux"
    /\ last.event = KeyEvent("d", FALSE, FALSE, FALSE, FALSE)
    /\ pre.selection.active
    /\ pre.cursorPosition # pre.selection.start
    /\ cursorPosition = pre.selection.start + 1
    /\ ~selection.active

\* C16: with no selection, deleteWord removes exactly the characters from
\* wordLeft(cursor) up to the cursor and deleteToLineStart those from
\* lineStart(cursor) up to the cursor; the cursor ends at that boundary and
\* the text before the boundary and after the old cursor is unchanged.
C16_DeleteBackToBoundary ==
    (/\ phase = "done"
     /\ last.op \in {"deleteWord", "deleteToLineStart"}
     /\ ~pre.selection.active) =>
        LET old      == pre.cursorPosition
            boundary == IF last.op = "deleteWord"
                        THEN findWordBoundary(pre.text, old, "left")
                        ELSE findLineStart(pre.text, old)
        IN  /\ boundary <= old
            /\ Len(text) = Len(pre.text) - (old - boundary)
            /\ \A i \in 1..Len(text) :
                   text[i] = IF i <= boundary THEN pre.text[i]
                             ELSE pre.text[i + (old - boundary)]
            /\ cursorPosition = boundary

\* Reached: deleteWord removes a word and keeps the whitespace before it.
C16_Witness ==
    /\ phase = "done"
    /\ last.op = "deleteWord"
    /\ ~pre.selection.active
    /\ pre.text = <<" ", "a">>
    /\ pre.cursorPosition = 2
    /\ text = <<" ">>
    /\ cursorPosition = 1

\* C17: with no selection, deleteWordForward removes exactly the characters
\* from the cursor up to wordRight(cursor) and deleteToLineEnd those from the
\* cursor up to lineEnd(cursor); the cursor and the text before it are
\* unchanged, and so is the text after the boundary.
C17_DeleteForwardToBoundary ==
    (/\ phase = "done"
     /\ last.op \in {"deleteWordForward", "deleteToLineEnd"}
     /\ ~pre.selection.active) =>
        LET old      == pre.cursorPosition
            boundary == IF last.op = "deleteWordForward"
                        THEN findWordBoundary(pre.text, old, "right")
                        ELSE findLineEnd(pre.text, old)
        IN  /\ old <= boundary
            /\ Len(text) = Len(pre.text) - (boundary - old)
            /\ \A i \in 1..Len(text) :
                   text[i] = IF i <= old THEN pre.text[i]
                             ELSE pre.text[i + (boundary - old)]
            /\ cursorPosition = old

\* Reached: deleteWordForward removes a word and the whitespace after it,
\* and keeps the character before the cursor.
C17_Witness ==
    /\ phase = "done"
    /\ last.op = "deleteWordForward"
    /\ ~pre.selection.active
    /\ pre.cursorPosition = 1
    /\ Len(pre.text) > 1
    /\ pre.text[2] \in WhitespaceChars
    /\ text = <<pre.text[1]>>
    /\ cursorPosition = 1

\* C18: selectAll on a non-empty text sets the selection to start 0, end
\* length, anchor 0 and the cursor to length, whatever the cursor and the
\* selection were; on the empty text the selection is null; the text is
\* never changed.
C18_SelectAll ==
    (phase = "done" /\ last.op = "selectAll") =>
        /\ text = pre.text
        /\ IF Len(pre.text) > 0
           THEN /\ selection.active
                /\ selection.start = 0
                /\ selection.end = Len(pre.text)
                /\ selection.anchor = 0
                /\ cursorPosition = Len(pre.text)
           ELSE ~selection.active

\* Reached: selectAll from a selection that ends before the end of the text,
\* with the cursor at its start.
C18_Witness ==
    /\ phase = "done"
    /\ last.op = "selectAll"
    /\ pre.selection.active
    /\ pre.selection.end < Len(pre.text)
    /\ pre.cursorPosition = pre.selection.start
    /\ selection.end = Len(text)
    /\ cursorPosition = Len(text)

\* C19: moveCursor(pos), moveByWord(dir), moveToLineStart and moveToLineEnd
\* leave the text unchanged, clear the selection and set the cursor to
\* clamp(pos, 0, length), wordLeft / wordRight(cursor), lineStart(cursor)
\* and lineEnd(cursor); the select operations never change the text either.
C19_MovesKeepText ==
    phase = "done" =>
        LET old == pre.cursorPosition
            len == Len(pre.text)
        IN  /\ last.op \in {"moveCursor", "moveByWord_left", "moveByWord_right",
                             "moveToLineStart", "moveToLineEnd"} =>
                  /\ text = pre.text
                  /\ ~selection.active
                  /\ cursorPosition =
                        CASE last.op = "moveCursor" ->
                                IF last.arg < 0 THEN 0
                                ELSE IF last.arg > len THEN len ELSE last.arg
                          [] last.op = "moveByWord_left" ->
                                findWordBoundary(pre.text, old, "left")
                          [] last.op = "moveByWord_right" ->
                                findWordBoundary(pre.text, old, "right")
                          [] last.op = "moveToLineStart" -> findLineStart(pre.text, old)
                          [] last.op = "moveToLineEnd" -> findLineEnd(pre.text, old)
            /\ last.op \in SelectOps \cup {"selectAll"} => text = pre.text

\* Reached: moveCursor to a negative position from a state with a selection
\* and the cursor away from 0.
C19_Witness ==
    /\ phase = "done"
    /\ last.op = "moveCursor"
    /\ last.arg < 0
    /\ pre.selection.active
    /\ pre.cursorPosition > 0
    /\ cursorPosition = 0
    /\ ~selection.active

(***************************************************************************)
(* Claims about the exported functions of challenges.js.                   *)
(***************************************************************************)
WordCommands == {"DELETE_WORD", "DELETE_WORD_FORWARD", "MOVE_WORD_LEFT",
                 "MOVE_WORD_RIGHT", "SELECT_WORD_LEFT", "SELECT_WORD_RIGHT"}

\* The number of whitespace-delimited words of a text.
WordCount(t) ==
    Cardinality({i \in 1..Len(t) :
                    /\ t[i] \notin WhitespaceChars
                    /\ (i = 1 \/ t[i - 1] \in WhitespaceChars)})

\* C12 as stated: generateChallenge for a word-based command returns null
\* when the supplied text, the empty text included, has fewer than 2 words.
C12_GenerateReturnsNull ==
    (/\ phase = "returned"
     /\ last.api = "generateChallenge"
     /\ commandType \in WordCommands
     /\ WordCount(last.arg.text) < 2) => challenge.kind = "null"

\* C12 amended: on a text of fewer than 2 words the generator of a
\* word-based command returns null; generateChallenge then runs the
\* generator once more itself, on a text drawn from TEXT_POOL (an empty text
\* it replaces by a pool text before the first run): it can return a
\* challenge on a pool text, and returns null only when the pool text drawn
\* has fewer than 2 words too (another draw then gives a challenge).
C12_GenerateRetriesFromPool ==
    (/\ phase = "returned"
     /\ commandType \in WordCommands
     /\ WordCount(last.arg.text) < 2) =>
        LET PoolTexts == {TEXT_POOL[i] : i \in 1..Len(TEXT_POOL)}
        IN
        /\ last.api = "generator" => challenge.kind = "null"
        /\ last.api = "generateChallenge" =>
              /\ challenge.kind \in {"challenge", "null"}
              /\ challenge.kind = "challenge" =>
                    /\ challenge.text \in PoolTexts
                    /\ WordCount(challenge.text) >= 2
              /\ challenge.kind = "null" =>
                    /\ \E t \in PoolTexts : WordCount(t) < 2
                    /\ \E ch \in generateChallenge(commandType, last.arg.text,
                                                    last.arg.os) :
                          ch.kind = "challenge"

\* Reached: generateChallenge given a one-word text returns a challenge on
\* another text.
C12_Witness ==
    /\ phase = "returned"
    /\ last.api = "generateChallenge"
    /\ commandType = "DELETE_WORD"
    /\ last.arg.text = <<"a">>
    /\ challenge.kind = "challenge"
    /\ challenge.text # last.arg.text

C15_FirstChordStartsGame ==
    [][(/\ last'.api = "keydown"
        /\ last' # last
        /\ last'.event = challenge.command.keyCode
        /\ ~app.hasStarted
        /\ ~app.isShowingResults) =>
           /\ game'.state = "active"
           /\ app'.hasStarted
           /\ app'.checkCommand = app.checkCommand + 1]_vars

\* C31: between the loading of a challenge and the loading of the next one,
\* checkCommand calls Game.handleCommandAttempt(true) at most once, under any
\* interleaving of key presses with the delayed checkCommand, retry and
\* next-challenge callbacks.
C31_ScoredAtMostOnce ==
    phase = "ready" => validation <= 1

(***************************************************************************)
(* Claims about the Game engine.                                           *)
(***************************************************************************)
\* C33 as stated: under any sequence of calls, the state of the Game changes
\* only from IDLE to ACTIVE (start, or the first handleCommandAttempt), from
\* ACTIVE to FINISHED (end, or a tick reaching zero) and from any state to
\* IDLE (reset): FINISHED is never entered from IDLE.
C33_ThreeTransitions ==
    pre.state # game.state =>
        \/ /\ pre.state = "idle" /\ game.state = "active"
           /\ last.api \in {"start", "handleCommandAttempt"}
        \/ /\ pre.state = "active" /\ game.state = "finished"
           /\ \/ last.api = "end"
              \/ last.api \in {"tick", "interval"} /\ game.timeRemaining = 0
        \/ /\ game.state = "idle"
           /\ last.api = "reset"

\* C33 amended: under any sequence of calls, the state of the Game changes
\* only from IDLE to ACTIVE (start, or the first handleCommandAttempt), from
\* ACTIVE to FINISHED (end, or a tick reaching zero), from IDLE to FINISHED
\* (end) and from any state to IDLE (reset); ACTIVE is never entered from
\* FINISHED.
C33_Transitions ==
    pre.state # game.state =>
        \/ /\ pre.state = "idle" /\ game.state = "active"
           /\ last.api \in {"start", "handleCommandAttempt"}
        \/ /\ pre.state = "active" /\ game.state = "finished"
           /\ \/ last.api = "end"
              \/ /\ last.api \in {"tick", "interval"}
                 /\ pre.timeRemaining = 1
                 /\ game.timeRemaining = 0
        \/ /\ pre.state = "idle" /\ game.state = "finished"
           /\ last.api = "end"
        \/ /\ game.state = "idle"
           /\ last.api = "reset"

\* Reached: end() called on a Game that was never started leaves it
\* FINISHED.
C33_Witness ==
    /\ last.api = "end"
    /\ pre.state = "idle"
    /\ game.state = "finished"
    /\ last.emitted = <<"gameEnd">>

\* C34 as stated: for a game of integer duration d >= 1, 0 <= timeRemaining
\* <= d in every state; timeRemaining decreases only by a tick while ACTIVE,
\* and by exactly 1; after a tick that brought it to 0 the state is FINISHED,
\* and a tick on a FINISHED game leaves it unchanged.
C34_OnlyTicksDecrease ==
    /\ game.duration >= 1
    /\ 0 <= game.timeRemaining /\ game.timeRemaining <= game.duration
    /\ game.timeRemaining < pre.timeRemaining =>
          /\ last.api \in {"tick", "interval"}
          /\ pre.state = "active"
          /\ game.timeRemaining = pre.timeRemaining - 1
    /\ (last.api \in {"tick", "interval"} /\ game.timeRemaining = 0) =>
          game.state = "finished"
    /\ (last.api \in {"tick", "interval"} /\ pre.state = "finished") =>
          game = pre

\* C34 amended: for a game of integer duration d >= 1, 0 <= timeRemaining
\* <= d in every state; timeRemaining decreases only by a tick while ACTIVE,
\* by exactly 1, or by a setDuration call on an IDLE game that lowers the
\* duration, to the new duration; after a tick that brought it to 0 the
\* state is FINISHED, and a tick on a FINISHED game leaves it unchanged.
C34_TimeRemaining ==
    /\ game.duration >= 1
    /\ 0 <= game.timeRemaining /\ game.timeRemaining <= game.duration
    /\ game.timeRemaining < pre.timeRemaining =>
          \/ /\ last.api \in {"tick", "interval"}
             /\ pre.state = "active"
             /\ game.timeRemaining = pre.timeRemaining - 1
             /\ game.duration = pre.duration
          \/ /\ last.api = "setDuration"
             /\ pre.state = "idle" /\ game.state = "idle"
             /\ game.duration < pre.duration
             /\ game.timeRemaining = game.duration
    /\ (last.api \in {"tick", "interval"} /\ pre.state = "active") =>
          game.timeRemaining = pre.timeRemaining - 1
    /\ (last.api \in {"tick", "interval"} /\ game.timeRemaining = 0) =>
          game.state = "finished"
    /\ (last.api \in {"tick", "interval"} /\ pre.state = "finished") =>
          game = pre

\* Reached: a tick has brought timeRemaining from 1 to 0 and finished the
\* game.
C34_Witness ==
    /\ last.api = "interval"
    /\ pre.state = "active"
    /\ pre.timeRemaining = 1
    /\ game.timeRemaining = 0
    /\ game.state = "finished"

\* C35: a game of duration d that has run since its start with no pause,
\* end, reset or destroy call is FINISHED exactly when d ticks have been
\* executed, and its gameEnd event has then been emitted once; no second
\* gameEnd is emitted before a reset; and while the interval keeps firing,
\* every game started and left alone eventually finishes.
C35_FinishesAfterDuration ==
    /\ [](/\ last.gameEnds <= 1
          /\ last.undisturbed =>
                /\ game.state \in {"active", "finished"}
                /\ last.ticks = game.duration - game.timeRemaining
                /\ game.state = "finished" <=> last.ticks = game.duration
                /\ last.gameEnds = IF game.state = "finished" THEN 1 ELSE 0)
    /\ ((game.state = "active" /\ last.undisturbed)
          ~> (game.state = "finished" \/ ~last.undisturbed))

\* Reached: a game of duration 2 started by its first command attempt has
\* finished at its second tick.
C35_Witness ==
    /\ last.api = "interval"
    /\ last.undisturbed
    /\ game.duration = 2
    /\ last.ticks = 2
    /\ game.state = "finished"
    /\ game.commandsAttempted > 0
    /\ last.emitted = <<"timerTick", "gameEnd">>

\* C36: on a FINISHED game handleCommandAttempt changes no field and emits no
\* event, and tick, start, pause, resume and setDuration change no field;
\* only reset leaves FINISHED, and it leaves the game IDLE with both
\* counters at 0 and timeRemaining at the duration.
C36_FinishedIsFrozen ==
    pre.state = "finished" =>
        /\ last.api = "handleCommandAttempt" =>
              (game = pre /\ last.emitted = <<>>)
        /\ last.api \in {"tick", "interval", "start", "pause", "resume", "setDuration"} =>
              (game = pre /\ last.emitted = <<>>)
        /\ game.state # "finished" => last.api = "reset"
        /\ last.api = "reset" =>
              /\ game.state = "idle"
              /\ game.commandsAttempted = 0
              /\ game.commandsCompleted = 0
              /\ game.timeRemaining = game.duration
              /\ game.duration = pre.duration

\* Reached: handleCommandAttempt(true) on a FINISHED game that had counted
\* an attempt.
C36_Witness ==
    /\ last.api = "handleCommandAttempt"
    /\ last.arg = TRUE
    /\ pre.state = "finished"
    /\ pre.commandsAttempted = 1
    /\ game.commandsAttempted = 1

\* C40: under any order of calls at most one countdown interval is active,
\* the one timerInterval holds, and only while the state is ACTIVE:
\* timerInterval is not set in IDLE or FINISHED, and no call creates an
\* interval while one is running.
C40_OneInterval ==
    /\ game.intervals = IF game.timerInterval THEN 1 ELSE 0
    /\ game.timerInterval => game.state = "active"
    /\ game.intervals > pre.intervals =>
          /\ pre.intervals = 0
          /\ last.api \in {"start", "handleCommandAttempt", "resume"}

\* Reached: resume() called while the interval is running leaves the one
\* interval.
C40_Witness ==
    /\ last.api = "resume"
    /\ pre.state = "active"
    /\ pre.timerInterval
    /\ game.intervals = 1

(***************************************************************************)
(* Claims about the boundary finders.                                      *)
(***************************************************************************)
\* C20: a word being a maximal run of non-whitespace characters, for every
\* text and every position p in [0, length] the word boundary to the left
\* of p is the largest index below p at which a word starts, or 0 if there
\* is none, and the word boundary to the right of p is the smallest index
\* above p at which a word starts, or the length if there is none; the
\* editor's finder and the generators' finders both return it.
C20_WordBoundaries ==
    (phase = "returned" /\ last.api = "findWordBoundary") =>
        LET t          == last.arg.text
            p          == last.arg.position
            WordStarts == {i \in 0..(Len(t) - 1) :
                              /\ t[i + 1] \notin WhitespaceChars
                              /\ (i = 0 \/ t[i] \in WhitespaceChars)}
            Below      == {i \in WordStarts : i < p}
            Above      == {i \in WordStarts : i > p}
            expected   == IF last.op = "left"
                          THEN IF Below = {} THEN 0
                               ELSE CHOOSE i \in Below : \A j \in Below : j <= i
                          ELSE IF Above = {} THEN Len(t)
                               ELSE CHOOSE i \in Above : \A j \in Above : i <= j
        IN  /\ last.arg.editor = expected
            /\ last.arg.generator = expected

\* Reached: from inside the first word of a text with two whitespace
\* characters in a row, the boundary to the right is the start of the next
\* word.
C20_Witness ==
    /\ phase = "returned"
    /\ last.api = "findWordBoundary"
    /\ last.op = "right"
    /\ last.arg.text = <<"a", " ", NL, "a">>
    /\ last.arg.position = 0
    /\ last.arg.editor = 3
    /\ last.arg.generator = 3

\* C21: for every text and every position p in [0, length], the line start
\* of p is the index just after the nearest newline strictly before p, or 0
\* if there is none; the line end of p is the index of the nearest newline
\* at or after p, or the length if there is none; both are idempotent and
\* lineStart(p) <= p <= lineEnd(p).
C21_LineBoundaries ==
    (phase = "returned" /\ last.api = "findLineBoundary") =>
        LET t        == last.arg.text
            p        == last.arg.position
            Newlines == {i \in 0..(Len(t) - 1) : t[i + 1] = NL}
            Before   == {i \in Newlines : i < p}
            AtOrAfter == {i \in Newlines : i >= p}
            expected == IF last.op = "start"
                        THEN IF Before = {} THEN 0
                             ELSE (CHOOSE i \in Before : \A j \in Before : j <= i) + 1
                        ELSE IF AtOrAfter = {} THEN Len(t)
                             ELSE CHOOSE i \in AtOrAfter : \A j \in AtOrAfter : i <= j
        IN  /\ last.arg.editor = expected
            /\ last.arg.again = last.arg.editor
            /\ last.op = "start" => last.arg.editor <= p
            /\ last.op = "end" => p <= last.arg.editor

\* Reached: the line end of a position between two newlines is the second
\* newline, past a character of the line.
C21_Witness ==
    /\ phase = "returned"
    /\ last.api = "findLineBoundary"
    /\ last.op = "end"
    /\ last.arg.text = <<NL, "a", "a", NL>>
    /\ last.arg.position = 1
    /\ last.arg.editor = 3
    /\ last.arg.again = 3

\* C22: for every text and every position p > 0 at which a word starts and
\* before which another word exists, the word boundary to the left of p is
\* the start of the word just before: it is not p, and it is 0 only if that
\* word starts at index 0.
C22_WordLeftFromWordStart ==
    (/\ phase = "returned"
     /\ last.api = "findWordBoundary"
     /\ last.op = "left") =>
        LET t          == last.arg.text
            p          == last.arg.position
            WordStarts == {i \in 0..(Len(t) - 1) :
                              /\ t[i + 1] \notin WhitespaceChars
                              /\ (i = 0 \/ t[i] \in WhitespaceChars)}
            Earlier    == {i \in WordStarts : i < p}
        IN  (p > 0 /\ p \in WordStarts /\ Earlier # {}) =>
                \A found \in {last.arg.editor, last.arg.generator} :
                    /\ found \in Earlier
                    /\ \A i \in Earlier : i <= found
                    /\ found # p
                    /\ found = 0 => t[1] \notin WhitespaceChars

\* Reached: from the start of the second word of a text that begins with
\* whitespace, the boundary to the left is the start of the first word,
\* which is not 0.
C22_Witness ==
    /\ phase = "returned"
    /\ last.api = "findWordBoundary"
    /\ last.op = "left"
    /\ last.arg.text = <<" ", "a", " ", "a">>
    /\ last.arg.position = 3
    /\ last.arg.editor = 1
    /\ last.arg.generator = 1

\* C23: for every text and every p in [1, length], the word boundary to the
\* right of the word boundary to the left of p is strictly greater than
\* that left boundary and is not less than p.
C23_RightOfLeft ==
    (/\ phase = "returned"
     /\ last.api = "findWordBoundary"
     /\ last.op = "left"
     /\ last.arg.position >= 1) =>
        /\ last.arg.back > last.arg.editor
        /\ last.arg.back >= last.arg.position

\* Reached: from the middle of the second word, left goes to the start of
\* that word and right from there goes to the end of the text.
C23_Witness ==
    /\ phase = "returned"
    /\ last.api = "findWordBoundary"
    /\ last.op = "left"
    /\ last.arg.text = <<"a", " ", "a", "a">>
    /\ last.arg.position = 3
    /\ last.arg.editor = 2
    /\ last.arg.back = 4

\* C24: for every text and every position in [0, length], the word boundary
\* to the left and to the right, the line start and the line end are indices
\* in [0, length]; the word boundary to the left of 0 is 0 and the one to
\* the right of the length is the length; on the empty text all four are 0.
C24_BoundariesInRange ==
    (phase = "returned" /\ last.api \in {"findWordBoundary", "findLineBoundary"}) =>
        LET t == last.arg.text
            p == last.arg.position
        IN  /\ last.arg.editor \in 0..Len(t)
            /\ (last.op = "left" /\ p = 0) => last.arg.editor = 0
            /\ (last.op = "right" /\ p = Len(t)) => last.arg.editor = Len(t)
            /\ t = <<>> => last.arg.editor = 0

\* Reached: the word boundary to the right of the end of a text that ends
\* in whitespace is the length.
C24_Witness ==
    /\ phase = "returned"
    /\ last.api = "findWordBoundary"
    /\ last.op = "right"
    /\ Len(last.arg.text) = MaxBoundaryLen
    /\ last.arg.text[MaxBoundaryLen] = " "
    /\ last.arg.position = MaxBoundaryLen
    /\ last.arg.editor = MaxBoundaryLen

\* C37: for every text and every position in [0, length], the generators'
\* findWordBoundaryLeft and findWordBoundaryRight return the index the
\* editor's _findWordBoundary returns for 'left' and 'right' on that text.
C37_GeneratorMatchesEditor ==
    (phase = "returned" /\ last.api = "findWordBoundary") =>
        /\ last.arg.position \in 0..Len(last.arg.text)
        /\ last.arg.generator = last.arg.editor

\* Reached: from the start of the second word, after two whitespace
\* characters, both finders return the start of the first word.
C37_Witness ==
    /\ phase = "returned"
    /\ last.api = "findWordBoundary"
    /\ last.op = "left"
    /\ last.arg.text = <<"a", " ", " ", "a">>
    /\ last.arg.position = 3
    /\ last.arg.generator = 0
    /\ last.arg.editor = 0

\* C38: for every text, the word boundary to the left of p is below p for
\* every p > 0 and the word boundary to the right of p is above p for every
\* p below the length; moveByWord('left') called length times from any
\* cursor leaves the cursor at 0, moveByWord('right') leaves it at the
\* length, the text unchanged, and one more call changes nothing.
C38_WordMovesProgress ==
    (phase = "returned" /\ last.api = "findWordBoundary") =>
        LET t == last.arg.text
            p == last.arg.position
        IN  /\ (last.op = "left" /\ p > 0) => last.arg.editor < p
            /\ (last.op = "right" /\ p < Len(t)) => last.arg.editor > p
            /\ last.arg.repeated =
                  EditorState(t, IF last.op = "left" THEN 0 ELSE Len(t), NullSelection)
            /\ last.arg.stays = last.arg.repeated

\* Reached: from the end of a text of two words and two whitespace
\* characters the first moveByWord('left') stops at the second word, and
\* the repeated calls end at 0.
C38_Witness ==
    /\ phase = "returned"
    /\ last.api = "findWordBoundary"
    /\ last.op = "left"
    /\ last.arg.text = <<"a", " ", NL, "a">>
    /\ last.arg.position = 4
    /\ last.arg.editor = 3
    /\ last.arg.repeated.cursorPosition = 0

(***************************************************************************)
(* Claims about concrete scenarios.                                        *)
(***************************************************************************)
\* C25 as stated: on the text "let counter = 0" with the cursor at 11 and no
\* selection, deleteWord, and the expected result of the DELETE_WORD
\* challenge for the word "counter", leave the cursor at 4 and the text
\* equal to "let = 0".
C25_DeleteCounterOneSpace ==
    (/\ phase = "applied"
     /\ commandType = "DELETE_WORD"
     /\ challenge.text = <<"l", "e", "t", " ", "c", "o", "u", "n", "t", "e", "r",
                           " ", "=", " ", "0">>
     /\ challenge.cursorPosition = 11) =>
        LET result == <<"l", "e", "t", " ", "=", " ", "0">>
        IN  /\ text = result
            /\ cursorPosition = 4
            /\ challenge.expectedResult.text = result
            /\ challenge.expectedResult.cursorPosition = 4

\* C25 amended: on the text "let counter = 0" with the cursor at 11 and no
\* selection, deleteWord, and the expected result of the DELETE_WORD
\* challenge for the word "counter", leave the cursor at 4 and the text
\* equal to "let  = 0": the space before the word and the space after it
\* both stay.
C25_DeleteCounter ==
    (/\ phase = "applied"
     /\ commandType = "DELETE_WORD"
     /\ challenge.text = <<"l", "e", "t", " ", "c", "o", "u", "n", "t", "e", "r",
                           " ", "=", " ", "0">>
     /\ challenge.cursorPosition = 11) =>
        LET result == <<"l", "e", "t", " ", " ", "=", " ", "0">>
        IN  /\ pre.cursorPosition = 11
            /\ ~pre.selection.active
            /\ last.op = "deleteWord"
            /\ text = result
            /\ cursorPosition = 4
            /\ challenge.expectedResult.text = result
            /\ challenge.expectedResult.cursorPosition = 4

\* Reached: deleteWord has run on "let counter = 0" from the cursor at 11.
C25_Witness ==
    /\ phase = "applied"
    /\ commandType = "DELETE_WORD"
    /\ last.op = "deleteWord"
    /\ pre.text = <<"l", "e", "t", " ", "c", "o", "u", "n", "t", "e", "r",
                    " ", "=", " ", "0">>
    /\ pre.cursorPosition = 11
    /\ Len(text) = 8

\* C26 as stated: on the text "cd /var/www/html" with the cursor at 2,
\* moveToLineEnd and the expected result of the JUMP_LINE_END challenge give
\* cursor 17, the length of the text, and leave the text unchanged.
C26_JumpToSeventeen ==
    (/\ phase = "applied"
     /\ commandType = "JUMP_LINE_END"
     /\ challenge.text = <<"c", "d", " ", "/", "v", "a", "r", "/", "w", "w", "w", "/", "h", "t", "m", "l">>
     /\ challenge.cursorPosition = 2) =>
        /\ Len(challenge.text) = 17
        /\ cursorPosition = 17
        /\ challenge.expectedResult.cursorPosition = 17
        /\ text = challenge.text
        /\ challenge.expectedResult.text = challenge.text

\* C26 amended: on the text "cd /var/www/html" with the cursor at 2,
\* moveToLineEnd and the expected result of the JUMP_LINE_END challenge give
\* cursor 16, the length of the text, and leave the text unchanged.
C26_JumpToLength ==
    (/\ phase = "applied"
     /\ commandType = "JUMP_LINE_END"
     /\ challenge.text = <<"c", "d", " ", "/", "v", "a", "r", "/", "w", "w", "w", "/", "h", "t", "m", "l">>
     /\ challenge.cursorPosition = 2) =>
        /\ pre.cursorPosition = 2
        /\ last.op = "moveToLineEnd"
        /\ Len(challenge.text) = 16
        /\ cursorPosition = 16
        /\ challenge.expectedResult.cursorPosition = 16
        /\ text = challenge.text
        /\ challenge.expectedResult.text = challenge.text

\* Reached: moveToLineEnd has run on "cd /var/www/html" from the cursor at 2.
C26_Witness ==
    /\ phase = "applied"
    /\ commandType = "JUMP_LINE_END"
    /\ last.op = "moveToLineEnd"
    /\ pre.text = <<"c", "d", " ", "/", "v", "a", "r", "/", "w", "w", "w", "/", "h", "t", "m", "l">>
    /\ pre.cursorPosition = 2
    /\ cursorPosition > 2

\* C27: on the text "ab cd" the MOVE_WORD_RIGHT challenge starts with the
\* cursor at 0, the only placement the generator has, and expects cursor 3
\* with the text unchanged; moveByWord('right') from 0 gives cursor 3 and
\* leaves the text unchanged.
C27_MoveRightOverAb ==
    (/\ commandType = "MOVE_WORD_RIGHT"
     /\ challenge.text = <<"a", "b", " ", "c", "d">>) =>
        /\ challenge.cursorPosition = 0
        /\ challenge.expectedResult.cursorPosition = 3
        /\ challenge.expectedResult.text = <<"a", "b", " ", "c", "d">>
        /\ (phase = "applied" =>
              /\ last.op = "moveByWord_right"
              /\ pre.cursorPosition = 0
              /\ cursorPosition = 3
              /\ text = <<"a", "b", " ", "c", "d">>)

\* Reached: moveByWord('right') has run on "ab cd" from the cursor at 0.
C27_Witness ==
    /\ phase = "applied"
    /\ commandType = "MOVE_WORD_RIGHT"
    /\ pre.text = <<"a", "b", " ", "c", "d">>
    /\ pre.cursorPosition = 0
    /\ cursorPosition = 3

\* C28: when generateChallenge is given no command type and an object of
\* enabled categories whose three flags are true or false, with at least one
\* true, the command it draws is in the list of a category whose flag is
\* true; when the three flags are false, the draw is over all 20 commands.
\* The challenge returned, unless it is null, carries that command.
C28_CommandFromEnabledCategory ==
    (last.api = "generateChallengeFromCategories") =>
        LET enabledCategories == last.arg.enabledCategories
            names     == DOMAIN enabledCategories
            commands  == last.arg.availableCommands
            drawable  == {commands[k] : k \in 1..Len(commands)}
            listed(c) == {CATEGORY_COMMANDS[c][k] : k \in 1..Len(CATEGORY_COMMANDS[c])}
        IN  /\ challenge.kind \in {"challenge", "null"}
            /\ challenge.kind = "challenge" =>
                  challenge.command = getCommandForOS(commandType, os)
            /\ commandType \in drawable
            /\ (/\ \A c \in names : enabledCategories[c] \in {"true", "false"}
                /\ \E c \in names : enabledCategories[c] = "true") =>
                   /\ \E c \in names :
                         enabledCategories[c] = "true" /\ commandType \in listed(c)
                   /\ drawable =
                         UNION {listed(c) : c \in {n \in names : enabledCategories[n] = "true"}}
            /\ (\A c \in names : enabledCategories[c] = "false") =>
                   /\ drawable = GeneratorIds
                   /\ Cardinality(drawable) = 20

\* Reached: with only the deletion flag true a deletion command was drawn.
C28_Witness ==
    /\ last.api = "generateChallengeFromCategories"
    /\ last.arg.enabledCategories =
          [navigation |-> "false", selection |-> "false", deletion |-> "true"]
    /\ commandType = "DELETE_TO_LINE_END"
    /\ challenge.kind = "challenge"

\* C29 as stated: for a text of length >= 1 the start cursor of a "to start"
\* line command lies in [min(5, length \div 4), length) and the start cursor
\* of a "to end" line command lies in [0, length - min(5, length \div 4)).
C29_LineCursorMargins ==
    (phase = "loaded" /\ Len(challenge.text) >= 1) =>
        LET length == Len(challenge.text)
            margin == IF length \div 4 < 5 THEN length \div 4 ELSE 5
            c      == challenge.cursorPosition
        IN  /\ commandType \in {"JUMP_LINE_START", "DELETE_TO_LINE_START",
                                 "CONTROL_DELETE_TO_START", "SELECT_TO_LINE_START",
                                 "CONTROL_LINE_START"} =>
                   (margin <= c /\ c < length)
            /\ commandType \in {"JUMP_LINE_END", "DELETE_TO_LINE_END",
                                 "SELECT_TO_LINE_END", "CONTROL_LINE_END"} =>
                   (0 <= c /\ c < length - margin)

\* C29 amended: for a text of length >= 1, the start cursor lies in
\* [min(5, length \div 4), length) for DELETE_TO_LINE_START,
\* CONTROL_DELETE_TO_START and SELECT_TO_LINE_START and in
\* [0, length - min(5, length \div 4)) for DELETE_TO_LINE_END and
\* SELECT_TO_LINE_END; for JUMP_LINE_START and CONTROL_LINE_START it lies in
\* [1, length), and is 1 when length = 1; for JUMP_LINE_END and
\* CONTROL_LINE_END it lies in [0, length - 1), and is 0 when length = 1.
\* Every cursor of these ranges is one the generator can draw.
C29_LineCursorRanges ==
    (phase = "loaded" /\ Len(challenge.text) >= 1) =>
        LET length  == Len(challenge.text)
            margin  == IF length \div 4 < 5 THEN length \div 4 ELSE 5
            c       == challenge.cursorPosition
            cursors == {ch.cursorPosition :
                           ch \in CHALLENGE_GENERATORS(commandType, challenge.text, os)}
        IN  /\ commandType \in {"DELETE_TO_LINE_START", "CONTROL_DELETE_TO_START",
                                 "SELECT_TO_LINE_START"} =>
                   /\ margin <= c /\ c < length
                   /\ cursors = margin..(length - 1)
            /\ commandType \in {"DELETE_TO_LINE_END", "SELECT_TO_LINE_END"} =>
                   /\ 0 <= c /\ c < length - margin
                   /\ cursors = 0..(length - margin - 1)
            /\ commandType \in {"JUMP_LINE_START", "CONTROL_LINE_START"} =>
                   /\ IF length = 1 THEN c = 1 ELSE 1 <= c /\ c < length
                   /\ cursors = IF length = 1 THEN {1} ELSE 1..(length - 1)
            /\ commandType \in {"JUMP_LINE_END", "CONTROL_LINE_END"} =>
                   /\ IF length = 1 THEN c = 0 ELSE 0 <= c /\ c < length - 1
                   /\ cursors = IF length = 1 THEN {0} ELSE 0..(length - 2)

\* Reached: a JUMP_LINE_START challenge on a text of TEXT_POOL starts with
\* the cursor at 1, before min(5, length \div 4) = 5.
C29_Witness ==
    /\ phase = "loaded"
    /\ commandType = "JUMP_LINE_START"
    /\ Len(challenge.text) >= 20
    /\ challenge.cursorPosition = 1
    /\ cursorPosition = 1

\* C30: a challenge of a word command has a text of n >= 2 words. For
\* DELETE_WORD, MOVE_WORD_LEFT and SELECT_WORD_LEFT the start cursor is the
\* end of a word of index in [1, n - 1], and every such word can be drawn;
\* for DELETE_WORD_FORWARD, MOVE_WORD_RIGHT and SELECT_WORD_RIGHT it is the
\* start of a word of index in [0, n - 2], and every such word can be drawn.
\* The expected text or the expected cursor differs from the start state.
C30_NonEdgeWord ==
    (/\ phase = "loaded"
     /\ commandType \in {"DELETE_WORD", "MOVE_WORD_LEFT", "SELECT_WORD_LEFT",
                          "DELETE_WORD_FORWARD", "MOVE_WORD_RIGHT",
                          "SELECT_WORD_RIGHT"}) =>
        LET words    == findWordBoundaries(challenge.text)
            n        == Len(words)
            c        == challenge.cursorPosition
            expected == challenge.expectedResult
            cursors  == {ch.cursorPosition :
                            ch \in CHALLENGE_GENERATORS(commandType, challenge.text, os)}
        IN  /\ n >= 2
            /\ commandType \in {"DELETE_WORD", "MOVE_WORD_LEFT", "SELECT_WORD_LEFT"} =>
                   /\ \E wordIndex \in 1..(n - 1) : c = words[wordIndex + 1].end
                   /\ cursors = {words[wordIndex + 1].end : wordIndex \in 1..(n - 1)}
            /\ commandType \in {"DELETE_WORD_FORWARD", "MOVE_WORD_RIGHT",
                                 "SELECT_WORD_RIGHT"} =>
                   /\ \E wordIndex \in 0..(n - 2) : c = words[wordIndex + 1].start
                   /\ cursors = {words[wordIndex + 1].start : wordIndex \in 0..(n - 2)}
            /\ (expected.text # challenge.text \/ expected.cursorPosition # c)

\* Reached: a SELECT_WORD_LEFT challenge on a text of more than three words
\* starts at the end of its third word.
C30_Witness ==
    /\ phase = "loaded"
    /\ commandType = "SELECT_WORD_LEFT"
    /\ Len(findWordBoundaries(challenge.text)) > 3
    /\ challenge.cursorPosition = findWordBoundaries(challenge.text)[3].end
    /\ challenge.expectedResult.cursorPosition < challenge.cursorPosition

====
